---- MODULE Spec2Model ----
(***************************************************************************)
(* A model of the client-side authority aggregator of                      *)
(* crates/sui-core/src/authority_aggregator.rs: the quorum driver          *)
(* (quorum_map_then_reduce_with_timeout_and_prefs) with the reducers of    *)
(* process_transaction, process_certificate and                            *)
(* execute_cert_to_true_effects, the pairwise certificate sync             *)
(* (sync_authority_source_to_destination) and the hedged serial driver     *)
(* (quorum_once_inner).                                                    *)
(***************************************************************************)
EXTENDS Integers, Sequences, FiniteSets, TLC

VARIABLES
    op,                 \* the protocol run on the quorum driver
    committee,          \* AuthorityName -> stake
    responses,          \* authorities whose map future is still pending
    accumulated_state,  \* the reducer state S
    current_timeout,    \* the wait budget of the driver loop
    pc,                 \* "running" | "done"
    result,             \* what the protocol returned
    metrics,            \* AuthAggMetrics observations
    answered,           \* history: authority -> the map result the reducer folded
    stalled,            \* history: authorities still pending when the wait budget expired
    last_out,           \* history: what the last reducer call returned
    driver_result,      \* the Result<S, SuiError> the driver returned
    \* sync_authority_source_to_destination
    dependencies,           \* the source's history: digest -> effects.dependencies
    source_mode,            \* "honest" | "faulty"
    destination_mode,       \* "lagging" | "arbitrary"
    missing_certificates,   \* the LIFO stack
    processed_certificates,
    attempted_certificates,
    applied,                \* history: digests the destination handler accepted, in order
    sync_pc,                \* "idle" | "loop" | "done"
    sync_result,
    fetched,                \* history: digests whose info the source was asked for while fetching dependencies
    \* quorum_once_with_timeout
    candidates,             \* the authorities shuffle_by_stake draws from
    behaviour,              \* authority -> [latency, outcome] of its requests
    interval,               \* serial_authority_request_interval
    total_left,             \* time left of timeout_total; -1 when None
    authorities_shuffled,   \* the rest of the round's shuffled order
    in_flight,              \* authority -> time left until its request completes
    next_timer,             \* time left until the pending StartNext
    authority_errors,       \* authority -> last recorded failure
    delay,                  \* the backoff of the next sleep
    once_pc,                \* "idle" | "start" | "round" | "sleep" | "done"
    once_result,
    abandoned,              \* history: requests dropped in flight by the last break
    failures,               \* history: authority -> its most recent failed request
    rounds,                 \* history: the failed rounds slept after, counted up to MaxRounds
    \* execute_transaction
    entry_point,            \* the public function that was called
    new_certificate,        \* the certificate process_transaction returned
    \* time, in ticks
    clock,                  \* time since the protocol started
    waited,                 \* time the loop has waited for the next response
    \* sync_certificate_to_authority and the map closure of process_certificate
    call,                   \* which of the two was called
    signers,                \* candidate_source_authorties: the signers of cert
    retries,
    destination_authority,
    source_authorities,     \* the sampled sources not tried yet
    tried,                  \* history: the sources contacted and how each sync ended
    reports,                \* history: the report_client_error calls
    cs_pc,                  \* "idle" | "sample" | "try" | "done"
    cs_result,
    ladder_pc,              \* "idle" | "handle" | "sync" | "retry" | "done"
    handle_calls,           \* history: the results of handle_certificate
    sync_calls,             \* history: the retries of each sync_certificate_to_authority call
    map_result,             \* what the map closure returned for the validator
    \* sync_all_given_objects
    objects,                \* the object ids asked for
    object_index,           \* how many of them the first loop has handled
    active_objects,
    deleted_objects,
    certs_to_sync,          \* certificate digest -> authorities to update
    synced,                 \* history: the sync_certificate_to_authority calls made
    reported,               \* history: per id, the highest versions get_object_by_id returned
    selected,               \* history: per id, the tuple the loop stopped at
    objects_pc,             \* "idle" | "objects" | "syncs" | "done"
    objects_result,
    \* fetch_objects_from_authorities
    object_refs,            \* the refs asked for
    channel_bound,          \* the capacity the channel was created with
    tasks,                  \* ref -> position and ret_val of its fetch_one_object task
    channel,                \* the results buffered in the channel
    senders,                \* the Sender handles alive
    received,               \* history: what the receiver got, in order
    fetch_pc,               \* "idle" | "spawning" | "returned"
    end_of_stream,          \* the receiver has observed None
    \* process_certificate called again
    answers,                \* authority -> what its map closure returns for the certificate
    first_result,           \* history: what the first call returned
    run,                    \* the number of the call under way
    \* the requests served by quorum_once_with_timeout
    request,                \* the function called; "-" for a bare map closure
    restricted,             \* the caller passed a set of authorities
    replies                 \* authority -> what it replies to the request

qVars == <<op, committee, responses, accumulated_state, current_timeout, pc,
           result, metrics, answered, stalled, last_out, driver_result>>

syncVars == <<dependencies, source_mode, destination_mode,
              missing_certificates, processed_certificates,
              attempted_certificates, applied, sync_pc, sync_result,
              fetched>>

onceVars == <<candidates, behaviour, interval, total_left,
              authorities_shuffled, in_flight, next_timer, authority_errors,
              delay, once_pc, once_result, abandoned, failures, rounds>>

execVars == <<entry_point, new_certificate>>

timeVars == <<clock, waited>>

certVars == <<call, signers, retries, destination_authority,
              source_authorities, tried, reports, cs_pc, cs_result,
              ladder_pc, handle_calls, sync_calls, map_result>>

objectVars == <<objects, object_index, active_objects, deleted_objects,
                certs_to_sync, synced, reported, selected, objects_pc,
                objects_result>>

driverVars == <<qVars, execVars, timeVars>>

fetchVars == <<object_refs, channel_bound, tasks, channel, senders, received,
               fetch_pc, end_of_stream>>

rerunVars == <<answers, first_result, run>>

infoVars == <<request, restricted, replies>>

moreVars == <<objectVars, fetchVars, rerunVars, infoVars>>

objectRest == <<fetchVars, rerunVars, infoVars>>

fetchRest == <<objectVars, rerunVars, infoVars>>

rerunRest == <<objectVars, fetchVars, infoVars>>

coreVars == <<driverVars, syncVars, onceVars, certVars>>

vars == <<coreVars, moreVars>>

-----------------------------------------------------------------------------
(* Bounds *)

MaxStake == 2

\* Transaction digests are 1..MaxCerts; the certificate to sync has digest 1.
MaxCerts == 4

\* quorum_once draws from the first 1..MaxCandidates authorities.
MaxCandidates == 2

\* timeout_each_authority, in ticks; a request's latency is 1..TimeoutEach + 1
TimeoutEach == 2

\* serial_authority_request_interval is 0..MaxInterval ticks
MaxInterval == 2

\* timeout_total is None or 1..MaxTotal ticks
MaxTotal == 3

\* The failed rounds of a quorum_once call are counted up to MaxRounds.
MaxRounds == 9

-----------------------------------------------------------------------------
(* Program constants *)

\* let mut delay = Duration::from_secs(1)
InitialDelay == 1

\* Duration::from_secs(5 * 60)
MaxDelay == 300

-----------------------------------------------------------------------------
(* Committee *)

Authorities == {"A", "B", "C", "D"}

AuthorityOrder == <<"A", "B", "C", "D">>

\* Committees up to renaming of the authorities: stakes listed in
\* non-increasing order.
Committees ==
    {c \in [Authorities -> 1..MaxStake] :
        \A i \in 1..(Len(AuthorityOrder) - 1) :
            c[AuthorityOrder[i]] >= c[AuthorityOrder[i + 1]]}

weight(cmt, name) == IF name \in DOMAIN cmt THEN cmt[name] ELSE 0

RECURSIVE StakeOf(_, _)
StakeOf(cmt, names) ==
    IF names = {} THEN 0
    ELSE LET n == CHOOSE x \in names : TRUE
         IN weight(cmt, n) + StakeOf(cmt, names \ {n})

total_votes(cmt) == StakeOf(cmt, DOMAIN cmt)

quorum_threshold_Third(cmt) == total_votes(cmt) \div 3 + 1

quorum_threshold(cmt) == (2 * total_votes(cmt)) \div 3 + 1

validity_threshold(cmt) == total_votes(cmt) \div 3 + 1

-----------------------------------------------------------------------------
(* Values *)

\* Opaque validator-level failures.
Errors == {"e1", "e2"}

EffectsDigests == {"d1", "d2"}

\* The effects digest every correct validator computes for the certificate.
TrueDigest == "d1"

SuiError(kind) == [kind |-> kind, authority |-> "-"]

ByzantineAuthoritySuspicion(name) ==
    [kind |-> "ByzantineAuthoritySuspicion", authority |-> name]

Resp(kind, val) == [kind |-> kind, val |-> val]

\* Result<TransactionInfoResponse> of handle_transaction
TransactionResponses ==
    {Resp("signed", "-"), Resp("cert", "-"), Resp("none", "-")}
        \cup {Resp("err", e) : e \in Errors}

\* Result<TransactionInfoResponse> of handle_certificate
CertificateResponses ==
    {Resp("effects", d) : d \in EffectsDigests}
        \cup {Resp("none", "-")}
        \cup {Resp("err", e) : e \in Errors}

\* The signature of an authority over a message.
Signature(name, msg) == [signer |-> name, msg |-> msg]

NoCertificate == [some |-> FALSE, origin |-> "-", signatures |-> <<>>]

\* A certificate a validator already held for the transaction.
PrevCertificate == [some |-> TRUE, origin |-> "prev", signatures |-> <<>>]

Names(sigs) == {sigs[i][1] : i \in DOMAIN sigs}

Distinct(sigs) == \A i, j \in DOMAIN sigs : sigs[i][1] = sigs[j][1] => i = j

\* CertifiedTransaction::new_with_signatures: builds the certificate and
\* verifies it against the committee.
new_with_signatures(sigs, cmt) ==
    IF /\ Distinct(sigs)
       /\ Names(sigs) \subseteq DOMAIN cmt
       /\ StakeOf(cmt, Names(sigs)) >= quorum_threshold(cmt)
    THEN [ok |-> TRUE,
          cert |-> [some |-> TRUE, origin |-> "formed", signatures |-> sigs]]
    ELSE [ok |-> FALSE, cert |-> NoCertificate]

Observation_CountsErrors(state) ==
    [num_signatures |-> Len(state.signatures) + Len(state.errors),
     num_good_stake |-> state.good_stake,
     num_bad_stake |-> state.bad_stake]

\* The three observe calls: signatures.len(), good_stake, bad_stake
Observation(state) ==
    [num_signatures |-> Len(state.signatures),
     num_good_stake |-> state.good_stake,
     num_bad_stake |-> state.bad_stake]

ReduceOutput(out, state, err, obs) ==
    [out |-> out, state |-> state, err |-> err, obs |-> obs]

NoError == SuiError("-")

-----------------------------------------------------------------------------
(* process_transaction *)

InitialTransactionState ==
    [signatures |-> <<>>, certificate |-> NoCertificate, errors |-> <<>>,
     good_stake |-> 0, bad_stake |-> 0]

Range(seq) == {seq[i] : i \in DOMAIN seq}

QuorumReached_Strict(good, cmt) == good > quorum_threshold(cmt)

\* if state.good_stake >= threshold
QuorumReached(good, cmt) == good >= quorum_threshold(cmt)

ExceedsValidity_AtValidity(bad, cmt) == bad >= validity_threshold(cmt)

\* if state.bad_stake > validity
ExceedsValidity(bad, cmt) == bad > validity_threshold(cmt)

SingleError_IgnoresGoodStake(unique_errors, good) ==
    Cardinality(unique_errors) = 1

\* if unique_errors.len() == 1 && state.good_stake == 0
SingleError(unique_errors, good) ==
    Cardinality(unique_errors) = 1 /\ good = 0

TransactionMatch_CountsUnexpected(state, name, wt, res, cmt) ==
    CASE res.kind = "cert" ->
            [state EXCEPT !.certificate = PrevCertificate]
      [] res.kind = "signed" ->
            LET sigs == Append(state.signatures,
                               <<name, Signature(name, "tx")>>)
                good == state.good_stake + wt
            IN  [state EXCEPT
                    !.signatures = sigs,
                    !.good_stake = good,
                    !.certificate =
                        IF good >= quorum_threshold(cmt)
                        THEN new_with_signatures(sigs, cmt).cert
                        ELSE @]
      [] res.kind = "err" ->
            [state EXCEPT !.errors = Append(@, SuiError(res.val)),
                          !.bad_stake = @ + wt]
      [] OTHER ->
            [state EXCEPT !.good_stake = @ + wt]

\* The match on the validator's response: the accumulator after it.
TransactionMatch(state, name, wt, res, cmt) ==
    CASE res.kind = "cert" ->
            [state EXCEPT !.certificate = PrevCertificate]
      [] res.kind = "signed" ->
            LET sigs == Append(state.signatures,
                               <<name, Signature(name, "tx")>>)
                good == state.good_stake + wt
            IN  [state EXCEPT
                    !.signatures = sigs,
                    !.good_stake = good,
                    !.certificate =
                        IF QuorumReached(good, cmt)
                        THEN new_with_signatures(sigs, cmt).cert
                        ELSE @]
      [] res.kind = "err" ->
            [state EXCEPT !.errors = Append(@, SuiError(res.val)),
                          !.bad_stake = @ + wt]
      [] OTHER ->
            [state EXCEPT
                !.errors = Append(@,
                    SuiError("ErrorWhileProcessingTransactionTransaction(Unexpected)")),
                !.bad_stake = @ + wt]

\* The reducer closure of process_transaction.
ReduceTransaction(state, name, wt, res, cmt) ==
    LET after == TransactionMatch(state, name, wt, res, cmt)
        formed == res.kind = "signed"
                    /\ QuorumReached(after.good_stake, cmt)
        formObs == IF formed THEN <<Observation(after)>> ELSE <<>>
        unique_errors == Range(after.errors)
    IN  IF formed /\ ~new_with_signatures(after.signatures, cmt).ok
        THEN ReduceOutput("Err", after,
                          SuiError("InvalidCertificate"), formObs)
        ELSE IF ExceedsValidity(after.bad_stake, cmt)
        THEN ReduceOutput("Err", after,
                IF SingleError(unique_errors, after.good_stake)
                THEN CHOOSE e \in unique_errors : TRUE
                ELSE [kind |-> "QuorumNotReached", errors |-> unique_errors],
                formObs \o <<Observation(after)>>)
        ELSE IF after.certificate.some
        THEN ReduceOutput("End", after, NoError, formObs)
        ELSE ReduceOutput("Continue", after, NoError, formObs)

FinishTransaction_QuorumNotReached(state) ==
    IF state.certificate.some
    THEN [status |-> "ok", value |-> state.certificate]
    ELSE [status |-> "err",
          value |-> [kind |-> "QuorumNotReached",
                     errors |-> Range(state.errors)]]

\* After the driver returned Ok(state): the certificate, or an error.
FinishTransaction(state) ==
    IF state.certificate.some
    THEN [status |-> "ok", value |-> state.certificate]
    ELSE [status |-> "err",
          value |-> SuiError(
                "ErrorWhileProcessingTransactionTransaction(No certificate)")]

-----------------------------------------------------------------------------
(* process_certificate *)

InitialCertificateState ==
    [effects_map |-> <<>>, bad_stake |-> 0, errors |-> <<>>]

EffectsStakeInfo(stake, digest, sigs) ==
    [stake |-> stake, effects |-> digest, signatures |-> sigs]

\* effects_map.entry(digest).or_insert(..), then the two updates of the entry
EffectsEntry(map, digest, name, wt) ==
    LET old == IF digest \in DOMAIN map THEN map[digest]
               ELSE EffectsStakeInfo(0, digest, <<>>)
    IN  EffectsStakeInfo(old.stake + wt, digest,
            Append(old.signatures, <<name, Signature(name, digest)>>))

MapPut(map, key, val) ==
    [k \in DOMAIN map \cup {key} |-> IF k = key THEN val ELSE map[k]]

\* The reducer closure of process_certificate.
ReduceCertificate(state, name, wt, res, cmt) ==
    IF res.kind = "effects"
    THEN LET entry == EffectsEntry(state.effects_map, res.val, name, wt)
             after == [state EXCEPT
                         !.effects_map = MapPut(@, res.val, entry)]
         IN  IF QuorumReached(entry.stake, cmt)
             THEN ReduceOutput("ContinueWithTimeout", after, NoError, <<>>)
             ELSE ReduceOutput("Continue", after, NoError, <<>>)
    ELSE LET err == IF res.kind = "err" THEN SuiError(res.val)
                    ELSE ByzantineAuthoritySuspicion(name)
             after == [state EXCEPT !.errors = Append(@, err),
                                    !.bad_stake = @ + wt]
         IN  IF ExceedsValidity(after.bad_stake, cmt)
             THEN ReduceOutput("Err", after,
                    [kind |-> "QuorumFailedToExecuteCertificate",
                     errors |-> after.errors], <<>>)
             ELSE ReduceOutput("Continue", after, NoError, <<>>)

\* CertifiedTransactionEffects::new
new_certified_effects(info, cmt) ==
    [status |-> "ok",
     value |-> [effects |-> info.effects, signatures |-> info.signatures]]

Winners_AtValidity(map, cmt) ==
    {d \in DOMAIN map : map[d].stake >= validity_threshold(cmt)}

\* if stake >= threshold
Winners(map, cmt) ==
    {d \in DOMAIN map : map[d].stake >= quorum_threshold(cmt)}

\* After the driver returned Ok(state): the results process_certificate can
\* return (the map is iterated in no particular order).
FinishCertificate(state, cmt) ==
    LET winners == Winners(state.effects_map, cmt)
    IN  IF winners # {}
        THEN {new_certified_effects(state.effects_map[d], cmt) : d \in winners}
        ELSE {[status |-> "err",
               value |-> [kind |-> "QuorumFailedToExecuteCertificate",
                          errors |-> state.errors]]}

-----------------------------------------------------------------------------
(* execute_cert_to_true_effects *)

NoEffects == [some |-> FALSE, digest |-> "-", signer |-> "-"]

InitialExecuteCertState ==
    [cumulative_weight |-> 0, good_weight |-> 0, digests |-> <<>>,
     true_effects |-> NoEffects, errors |-> <<>>]

ValidityReached_GoodWeight(entry, good_weight, cmt) ==
    good_weight >= validity_threshold(cmt)

\* if *entry >= validity
ValidityReached(entry, good_weight, cmt) ==
    entry >= validity_threshold(cmt)

ValidityImpossible_Never(weight_remaining, good_weight, cmt) == FALSE

\* if weight_remaining + state.good_weight < validity
ValidityImpossible(weight_remaining, good_weight, cmt) ==
    weight_remaining + good_weight < validity_threshold(cmt)

\* The reducer closure of execute_cert_to_true_effects.
ReduceExecuteCert(state, name, wt, res, cmt) ==
    LET s0 == [state EXCEPT !.cumulative_weight = @ + wt]
        entry == (IF res.val \in DOMAIN s0.digests
                  THEN s0.digests[res.val] ELSE 0) + wt
        s1 == CASE res.kind = "effects" ->
                    [s0 EXCEPT !.good_weight = @ + wt,
                               !.digests = MapPut(@, res.val, entry)]
                [] res.kind = "none" ->
                    [s0 EXCEPT !.errors = Append(@,
                        <<name, ByzantineAuthoritySuspicion(name)>>)]
                [] OTHER ->
                    [s0 EXCEPT !.errors = Append(@,
                        <<name, SuiError(res.val)>>)]
        weight_remaining == total_votes(cmt) - s1.cumulative_weight
    IN  IF res.kind = "effects"
            /\ ValidityReached(entry, s1.good_weight, cmt)
        THEN ReduceOutput("End",
                [s1 EXCEPT !.true_effects =
                    [some |-> TRUE, digest |-> res.val, signer |-> name]],
                NoError, <<>>)
        ELSE IF ValidityImpossible(weight_remaining, s1.good_weight, cmt)
        THEN ReduceOutput("End", s1, NoError, <<>>)
        ELSE ReduceOutput("Continue", s1, NoError, <<>>)

\* final_state.true_effects.ok_or(TooManyIncorrectAuthorities)
FinishExecuteCert(state) ==
    IF state.true_effects.some
    THEN [status |-> "ok", value |-> state.true_effects]
    ELSE [status |-> "err",
          value |-> [kind |-> "TooManyIncorrectAuthorities",
                     errors |-> state.errors]]


-----------------------------------------------------------------------------
(* get_object_by_id and get_all_owned_objects *)

QueryProtocols == {"get_object_by_id", "get_all_owned_objects"}

\* SuiResult<ObjectInfoResponse>: the reference the validator holds for the
\* object (requested_object_reference), or none when it never saw the object.
ObjectInfoResponses ==
    {Resp("object", "v1"), Resp("object", "v2"), Resp("unseen", "-")}
        \cup {Resp("err", e) : e \in Errors}

\* Result<AccountInfoResponse>: the object references the validator lists
\* for the address, none, x, or x and y.
AccountInfoResponses ==
    {Resp("objects", "-"), Resp("objects", "x"), Resp("objects", "xy")}
        \cup {Resp("err", e) : e \in Errors}

\* object_ids of an AccountInfoResponse
ObjectIdsOf(res) ==
    CASE res.val = "x" -> {"x"}
      [] res.val = "xy" -> {"x", "y"}
      [] OTHER -> {}

\* GetObjectByIDRequestState::default()
InitialObjectByIdState ==
    [good_weight |-> 0, bad_weight |-> 0, responses |-> <<>>]

\* OwnedObjectQueryState::default()
InitialOwnedObjectsState ==
    [good_weight |-> 0, bad_weight |-> 0, object_map |-> <<>>,
     responded_authorities |-> <<>>, errors |-> <<>>]

TooManyIncorrectAuthorities(errors) ==
    [kind |-> "TooManyIncorrectAuthorities", errors |-> errors]

\* responses.into_iter().filter_map(|(name, response)| response.err()..)
RECURSIVE ErrorsOf(_)
ErrorsOf(list) ==
    IF list = <<>> THEN <<>>
    ELSE LET r == Head(list)
         IN  (IF r[2].kind = "err" THEN <<<<r[1], SuiError(r[2].val)>>>>
              ELSE <<>>) \o ErrorsOf(Tail(list))

QueryFails_AtValidity(bad, cmt) == bad >= validity_threshold(cmt)

\* if state.bad_weight > validity
QueryFails(bad, cmt) == bad > validity_threshold(cmt)

\* if state.good_weight < threshold { Continue } else { ContinueWithTimeout }
QueryOutput(state, cmt) ==
    IF state.good_weight < quorum_threshold(cmt)
    THEN ReduceOutput("Continue", state, NoError, <<>>)
    ELSE ReduceOutput("ContinueWithTimeout", state, NoError, <<>>)

\* The reducer closure of get_object_by_id.
ReduceObjectById(state, name, wt, res, cmt) ==
    LET counted == [state EXCEPT !.good_weight = @ + wt,
                                 !.responses = Append(@, <<name, res>>)]
        failed == [counted EXCEPT !.bad_weight = @ + wt]
    IN  IF res.kind = "err"
        THEN IF QueryFails(failed.bad_weight, cmt)
             THEN ReduceOutput("Err", failed,
                    TooManyIncorrectAuthorities(ErrorsOf(failed.responses)),
                    <<>>)
             ELSE QueryOutput(failed, cmt)
        ELSE QueryOutput(counted, cmt)

\* object_map.entry(obj_ref).or_insert_with(Vec::new).push(name), for each
\* reference of the response
Attribute(map, refs, name) ==
    [k \in DOMAIN map \cup refs |->
        (IF k \in DOMAIN map THEN map[k] ELSE <<>>)
            \o (IF k \in refs THEN <<name>> ELSE <<>>)]

\* The reducer closure of get_all_owned_objects.
ReduceOwnedObjects(state, name, wt, res, cmt) ==
    LET counted == [state EXCEPT !.good_weight = @ + wt]
        listed == [counted EXCEPT
                     !.responded_authorities = Append(@, name),
                     !.object_map = Attribute(@, ObjectIdsOf(res), name)]
        failed == [counted EXCEPT
                     !.errors = Append(@, <<name, SuiError(res.val)>>),
                     !.bad_weight = @ + wt]
    IN  IF res.kind = "err"
        THEN IF QueryFails(failed.bad_weight, cmt)
             THEN ReduceOutput("Err", failed,
                    TooManyIncorrectAuthorities(failed.errors), <<>>)
             ELSE QueryOutput(failed, cmt)
        ELSE QueryOutput(listed, cmt)

\* The loop of get_object_by_id over final_state.responses: a validator
\* that reported a reference is pushed onto the entry of that reference.
RECURSIVE ObjectMapOf(_)
ObjectMapOf(list) ==
    IF list = <<>> THEN <<>>
    ELSE LET r == list[Len(list)]
             map == ObjectMapOf(SubSeq(list, 1, Len(list) - 1))
         IN  IF r[2].kind = "object"
             THEN Attribute(map, {r[2].val}, r[1])
             ELSE map

\* Ok((object_map, certificates))
FinishObjectById(state) ==
    [status |-> "ok", value |-> [object_map |-> ObjectMapOf(state.responses)]]

\* Ok((final_state.object_map, final_state.responded_authorities))
FinishOwnedObjects(state) ==
    [status |-> "ok",
     value |-> [object_map |-> state.object_map,
                responded_authorities |-> state.responded_authorities]]

-----------------------------------------------------------------------------
(* quorum_map_then_reduce_with_timeout_and_prefs *)

Protocols ==
    {"process_transaction", "process_certificate",
     "execute_cert_to_true_effects"}

InitialState(o) ==
    CASE o = "process_transaction" -> InitialTransactionState
      [] o = "process_certificate" -> InitialCertificateState
      [] o = "get_object_by_id" -> InitialObjectByIdState
      [] o = "get_all_owned_objects" -> InitialOwnedObjectsState
      [] OTHER -> InitialExecuteCertState

\* What the map function can yield for one authority.
MapResults(o) ==
    CASE o = "process_transaction" -> TransactionResponses
      [] o = "get_object_by_id" -> ObjectInfoResponses
      [] o = "get_all_owned_objects" -> AccountInfoResponses
      [] OTHER -> CertificateResponses

\* The answer of a correct, up-to-date validator.
Correct(o, res) ==
    IF o = "process_transaction" THEN res.kind \in {"signed", "cert"}
    ELSE res = Resp("effects", TrueDigest)

reduce_result(o, state, name, wt, res, cmt) ==
    CASE o = "process_transaction" ->
            ReduceTransaction(state, name, wt, res, cmt)
      [] o = "process_certificate" ->
            ReduceCertificate(state, name, wt, res, cmt)
      [] o = "get_object_by_id" ->
            ReduceObjectById(state, name, wt, res, cmt)
      [] o = "get_all_owned_objects" ->
            ReduceOwnedObjects(state, name, wt, res, cmt)
      [] OTHER -> ReduceExecuteCert(state, name, wt, res, cmt)

\* The caller's code after the driver returned Ok(state).
Finish(o, state, cmt) ==
    CASE o = "process_transaction" -> {FinishTransaction(state)}
      [] o = "process_certificate" -> FinishCertificate(state, cmt)
      [] o = "get_object_by_id" -> {FinishObjectById(state)}
      [] o = "get_all_owned_objects" -> {FinishOwnedObjects(state)}
      [] OTHER -> {FinishExecuteCert(state)}

\* The authorities whose folded response was not the correct answer.
Deviant == {name \in DOMAIN answered : ~Correct(op, answered[name])}

NoResult == [status |-> "none", value |-> "-"]

InitialMetrics ==
    [total_tx_certificates_created |-> 0, num_signatures |-> <<>>,
     num_good_stake |-> <<>>, num_bad_stake |-> <<>>]

RECURSIVE Observe(_, _)
Observe(m, obs) ==
    IF obs = <<>> THEN m
    ELSE Observe([m EXCEPT
                    !.num_signatures = Append(@, Head(obs).num_signatures),
                    !.num_good_stake = Append(@, Head(obs).num_good_stake),
                    !.num_bad_stake = Append(@, Head(obs).num_bad_stake)],
                 Tail(obs))

NextTimeout_Reset(out, current) ==
    IF out = "ContinueWithTimeout" THEN "post_quorum_timeout"
    ELSE "pre_quorum_timeout"

\* The loop's next wait budget after a reducer call.
NextTimeout(out, current) ==
    IF out = "ContinueWithTimeout" THEN "post_quorum_timeout" ELSE current

Returns_IgnoresEnd(out, rest) == out = "Err" \/ rest = {}

\* The driver returns once the reducer ends or fails, or no future is left.
Returns(out, rest) == out \in {"End", "Err"} \/ rest = {}

Remaining_KeepsFuture(pending, name) == pending

\* responses.next(): the completed future leaves the FuturesUnordered
Remaining(pending, name) == pending \ {name}

NoReduceOutput == [out |-> "-", err |-> NoError]

\* Result<S, SuiError>
DriverOk(state) == [status |-> "ok", value |-> state]

DriverErr(err) == [status |-> "err", value |-> err]

\* One iteration of the while-let loop: a response arrives within the wait
\* budget and is folded into the state; the loop then returns or waits again.
Deliver(name, res) ==
    /\ pc = "running"
    /\ name \in responses
    /\ LET r == reduce_result(op, accumulated_state, name,
                              weight(committee, name), res, committee)
           rest == Remaining(responses, name)
       IN  /\ accumulated_state' = r.state
           /\ last_out' = [out |-> r.out, err |-> r.err]
           /\ metrics' = Observe(metrics, r.obs)
           /\ current_timeout' = NextTimeout(r.out, current_timeout)
           /\ answered' = MapPut(answered, name, res)
           /\ IF Returns(r.out, rest)
              THEN /\ pc' = "done"
                   /\ responses' = {}
                   /\ driver_result' = IF r.out = "Err" THEN DriverErr(r.err)
                                       ELSE DriverOk(r.state)
                   /\ result' \in
                        IF r.out = "Err"
                        THEN {[status |-> "err", value |-> r.err]}
                        ELSE Finish(op, r.state, committee)
              ELSE /\ pc' = "running"
                   /\ responses' = rest
                   /\ driver_result' = driver_result
                   /\ result' = result
    /\ UNCHANGED <<op, committee, stalled>>
    /\ UNCHANGED <<syncVars, onceVars, certVars, moreVars>>

\* No response arrives within current_timeout: the loop ends with the state
\* accumulated so far.
Expire ==
    /\ pc = "running"
    /\ responses # {}
    /\ pc' = "done"
    /\ stalled' = responses
    /\ responses' = {}
    /\ driver_result' = DriverOk(accumulated_state)
    /\ result' \in Finish(op, accumulated_state, committee)
    /\ UNCHANGED <<op, committee, accumulated_state, current_timeout,
                   metrics, answered, last_out>>
    /\ UNCHANGED <<syncVars, onceVars, certVars, moreVars>>

ObjectsIdle ==
    /\ objects = <<>>
    /\ object_index = 0
    /\ active_objects = <<>>
    /\ deleted_objects = <<>>
    /\ certs_to_sync = <<>>
    /\ synced = {}
    /\ reported = <<>>
    /\ selected = <<>>
    /\ objects_pc = "idle"
    /\ objects_result = [status |-> "none", value |-> "-"]

FetchIdle ==
    /\ object_refs = {}
    /\ channel_bound = 1
    /\ tasks = <<>>
    /\ channel = <<>>
    /\ senders = 0
    /\ received = <<>>
    /\ fetch_pc = "idle"
    /\ end_of_stream = FALSE

RerunIdle ==
    /\ answers = <<>>
    /\ first_result = [status |-> "none", effects |-> "-", signers |-> {}]
    /\ run = 0

InfoIdle ==
    /\ request = "-"
    /\ restricted = FALSE
    /\ replies = <<>>

MoreIdle == ObjectsIdle /\ FetchIdle /\ RerunIdle /\ InfoIdle

CertIdle ==
    /\ call = "-"
    /\ signers = {}
    /\ retries = 0
    /\ destination_authority = "-"
    /\ source_authorities = <<>>
    /\ tried = <<>>
    /\ reports = <<>>
    /\ cs_pc = "idle"
    /\ cs_result = NoResult
    /\ ladder_pc = "idle"
    /\ handle_calls = <<>>
    /\ sync_calls = <<>>
    /\ map_result = Resp("-", "-")

SyncIdle ==
    /\ dependencies = <<>>
    /\ source_mode = "honest"
    /\ destination_mode = "lagging"
    /\ missing_certificates = <<>>
    /\ processed_certificates = {}
    /\ attempted_certificates = {}
    /\ applied = <<>>
    /\ sync_pc = "idle"
    /\ sync_result = NoResult
    /\ fetched = <<>>

OnceIdle ==
    /\ candidates = {}
    /\ behaviour = <<>>
    /\ interval = 0
    /\ total_left = -1
    /\ authorities_shuffled = <<>>
    /\ in_flight = <<>>
    /\ next_timer = 0
    /\ authority_errors = <<>>
    /\ delay = InitialDelay
    /\ once_pc = "idle"
    /\ once_result = NoResult
    /\ abandoned = {}
    /\ failures = <<>>
    /\ rounds = 0

Init ==
    /\ MoreIdle
    /\ SyncIdle
    /\ OnceIdle
    /\ CertIdle
    /\ op \in Protocols
    /\ entry_point = op
    /\ new_certificate = NoCertificate
    /\ clock = 0
    /\ waited = 0
    /\ committee \in Committees
    /\ responses = DOMAIN committee
    /\ accumulated_state = InitialState(op)
    /\ current_timeout = "pre_quorum_timeout"
    /\ pc = "running"
    /\ result = NoResult
    /\ metrics = InitialMetrics
    /\ answered = <<>>
    /\ stalled = {}
    /\ last_out = NoReduceOutput
    /\ driver_result = NoResult

Respond ==
    /\ \E name \in Authorities : \E res \in MapResults(op) : Deliver(name, res)
    /\ UNCHANGED <<execVars, timeVars>>

Timeout ==
    /\ Expire
    /\ UNCHANGED <<execVars, timeVars>>

Next ==
    \/ Respond
    \/ Timeout

Spec == Init /\ [][Next]_vars

\* The fan-outs whose reducer switches to the post-quorum timeout: the two
\* object queries and process_certificate.
QueryInit ==
    /\ MoreIdle
    /\ SyncIdle
    /\ OnceIdle
    /\ CertIdle
    /\ op \in QueryProtocols \cup {"process_certificate"}
    /\ entry_point = op
    /\ new_certificate = NoCertificate
    /\ clock = 0
    /\ waited = 0
    /\ committee \in Committees
    /\ responses = DOMAIN committee
    /\ accumulated_state = InitialState(op)
    /\ current_timeout = "pre_quorum_timeout"
    /\ pc = "running"
    /\ result = NoResult
    /\ metrics = InitialMetrics
    /\ answered = <<>>
    /\ stalled = {}
    /\ last_out = NoReduceOutput
    /\ driver_result = NoResult

QuerySpec == QueryInit /\ [][Next]_vars

\* Every fan-out on the quorum driver that keeps stake counters.
FanOutProtocols == Protocols \cup QueryProtocols

FanOutInit ==
    /\ MoreIdle
    /\ SyncIdle
    /\ OnceIdle
    /\ CertIdle
    /\ op \in FanOutProtocols
    /\ entry_point = op
    /\ new_certificate = NoCertificate
    /\ clock = 0
    /\ waited = 0
    /\ committee \in Committees
    /\ responses = DOMAIN committee
    /\ accumulated_state = InitialState(op)
    /\ current_timeout = "pre_quorum_timeout"
    /\ pc = "running"
    /\ result = NoResult
    /\ metrics = InitialMetrics
    /\ answered = <<>>
    /\ stalled = {}
    /\ last_out = NoReduceOutput
    /\ driver_result = NoResult

FanOutSpec == FanOutInit /\ [][Next]_vars


-----------------------------------------------------------------------------
(* sync_authority_source_to_destination *)

Digests == 1..MaxCerts

\* The digest of the certificate passed to the call.
CertDigest == 1

RECURSIVE SortedSeq(_)
SortedSeq(set) ==
    IF set = {} THEN <<>>
    ELSE LET m == CHOOSE x \in set : \A y \in set : x <= y
         IN  <<m>> \o SortedSeq(set \ {m})

\* Causal histories: every transaction depends on later digests only.
Histories ==
    {[d \in Digests |-> SortedSeq(h[d])] :
        h \in {g \in [Digests -> SUBSET Digests] :
                 \A d \in Digests : \A e \in g[d] : e > d}}

\* The key the loop uses for processed_certificates, attempted_certificates
\* and the source's transaction info request: let cert_digest = *cert.digest()
cert_digest(cert, target_cert) == cert

\* cert_handler.handle(target_cert): a lagging destination accepts a
\* certificate once all its dependencies are applied; an arbitrary one
\* answers anything.
HandlerAnswers(target_cert) ==
    IF destination_mode = "arbitrary" THEN {"ok", "ObjectErrors", "err"}
    ELSE IF Range(dependencies[target_cert]) \subseteq Range(applied)
         THEN {"ok"}
         ELSE {"ObjectErrors"}

\* What the requests to the source of one iteration yield.
SourceAnswers ==
    IF source_mode = "honest" THEN {"ok"}
    ELSE {"ok", "missing", "err", "forged"}

\* Dependency lists a faulty source may put into the effects it signs.
Forgeries ==
    {<<d>> : d \in Digests} \cup {<<CertDigest, CertDigest>>}

Pop(stack) == SubSeq(stack, 1, Len(stack) - 1)

Top(stack) == stack[Len(stack)]

Record(seq, d) == IF d \in Range(seq) THEN seq ELSE Append(seq, d)

SyncReturn(res) ==
    /\ sync_pc' = "done"
    /\ sync_result' = res

SyncOk == [status |-> "ok", value |-> "-"]

SyncErr(kind) == [status |-> "err", value |-> SuiError(kind)]

\* The digest whose transaction info is fetched from the source: the target
\* is re-executed at the source when nothing else is on the stack, otherwise
\* the info is requested by cert_digest.
InfoDigest(rest, key, target_cert) ==
    IF rest = <<>> THEN target_cert ELSE key

\* attempted_certificates.insert(cert_digest)
Attempt_Forgotten(attempted, key) == attempted

Attempt(attempted, key) == attempted \cup {key}

\* One iteration of the while-let loop.
SyncIteration(handled, sourced) ==
    /\ sync_pc = "loop"
    /\ missing_certificates # <<>>
    /\ LET target_cert == Top(missing_certificates)
           rest == Pop(missing_certificates)
           key == cert_digest(CertDigest, target_cert)
       IN  IF key \in processed_certificates
           THEN /\ missing_certificates' = rest
                /\ UNCHANGED <<processed_certificates, attempted_certificates,
                               applied, sync_pc, sync_result, fetched>>
           ELSE /\ handled \in HandlerAnswers(target_cert)
                /\ CASE handled = "ok" ->
                        /\ applied' = Record(applied, target_cert)
                        /\ processed_certificates' =
                                processed_certificates \cup {key}
                        /\ missing_certificates' = rest
                        /\ UNCHANGED <<attempted_certificates, sync_pc,
                                       sync_result, fetched>>
                     [] handled = "err" ->
                        /\ SyncReturn(SyncErr("e1"))
                        /\ missing_certificates' = rest
                        /\ UNCHANGED <<processed_certificates,
                                       attempted_certificates, applied,
                                       fetched>>
                     [] OTHER ->
                        IF key \in attempted_certificates
                        THEN /\ SyncReturn(SyncErr(
                                    "AuthorityInformationUnavailable"))
                             /\ missing_certificates' = rest
                             /\ UNCHANGED <<processed_certificates,
                                            attempted_certificates, applied,
                                            fetched>>
                        ELSE /\ attempted_certificates' =
                                    Attempt(attempted_certificates, key)
                             /\ fetched' =
                                    Append(fetched,
                                           InfoDigest(rest, key, target_cert))
                             /\ sourced \in SourceAnswers
                             /\ CASE sourced = "ok" ->
                                     /\ missing_certificates' =
                                            Append(rest, target_cert) \o
                                            dependencies[InfoDigest(rest, key,
                                                            target_cert)]
                                     /\ UNCHANGED <<sync_pc, sync_result>>
                                  [] sourced = "forged" ->
                                     /\ \E list \in Forgeries :
                                            missing_certificates' =
                                                Append(rest, target_cert)
                                                    \o list
                                     /\ UNCHANGED <<sync_pc, sync_result>>
                                  [] sourced = "missing" ->
                                     /\ SyncReturn(SyncErr(
                                          "AuthorityInformationUnavailable"))
                                     /\ missing_certificates' = rest
                                  [] OTHER ->
                                     /\ SyncReturn(SyncErr("e2"))
                                     /\ missing_certificates' = rest
                             /\ UNCHANGED <<processed_certificates, applied>>
    /\ UNCHANGED <<dependencies, source_mode, destination_mode>>
    /\ UNCHANGED <<driverVars, onceVars, certVars, moreVars>>

\* The stack is empty: Ok(()).
SyncDone ==
    /\ sync_pc = "loop"
    /\ missing_certificates = <<>>
    /\ SyncReturn(SyncOk)
    /\ UNCHANGED <<dependencies, source_mode, destination_mode,
                   missing_certificates, processed_certificates,
                   attempted_certificates, applied, fetched>>
    /\ UNCHANGED <<driverVars, onceVars, certVars, moreVars>>

QuorumIdle ==
    /\ op = "process_transaction"
    /\ committee \in {c \in Committees : \A a \in Authorities : c[a] = 1}
    /\ responses = {}
    /\ accumulated_state = InitialState(op)
    /\ current_timeout = "pre_quorum_timeout"
    /\ pc = "idle"
    /\ entry_point = "-"
    /\ new_certificate = NoCertificate
    /\ clock = 0
    /\ waited = 0
    /\ result = NoResult
    /\ metrics = InitialMetrics
    /\ answered = <<>>
    /\ stalled = {}
    /\ last_out = NoReduceOutput
    /\ driver_result = NoResult

SyncInit ==
    /\ MoreIdle
    /\ QuorumIdle
    /\ OnceIdle
    /\ CertIdle
    /\ dependencies \in Histories
    /\ source_mode \in {"honest", "faulty"}
    /\ destination_mode \in {"lagging", "arbitrary"}
    /\ missing_certificates = <<CertDigest>>
    /\ processed_certificates = {}
    /\ attempted_certificates = {}
    /\ applied = <<>>
    /\ sync_pc = "loop"
    /\ sync_result = NoResult
    /\ fetched = <<>>

SyncStep ==
    \E handled \in {"ok", "ObjectErrors", "err"} :
        \E sourced \in {"ok", "missing", "err", "forged"} :
            SyncIteration(handled, sourced)

SyncNext ==
    \/ SyncStep
    \/ SyncDone

SyncSpec == SyncInit /\ [][SyncNext]_vars

\* Every request to the source and to the destination returns, so the loop
\* keeps taking steps.
SyncFairSpec == SyncSpec /\ WF_vars(SyncNext)


-----------------------------------------------------------------------------
(* quorum_once_inner / quorum_once_with_timeout *)

Min(a, b) == IF a <= b THEN a ELSE b

\* The orders shuffle_by_stake can return for a set of authorities.
Shuffles(set) ==
    {order \in [1..Cardinality(set) -> set] :
        \A i, j \in DOMAIN order : order[i] = order[j] => i = j}

Behaviours ==
    [latency : 1..(TimeoutEach + 1), outcome : {"ok", "err"}]

\* The functions that hand a map closure to quorum_once_with_timeout.
InfoRequests ==
    {"get_certified_checkpoint", "handle_cert_info_request",
     "handle_transaction_and_effects_info_request"}

\* What a validator replies: a response with the data asked for (a
\* Certified checkpoint; a certified transaction and signed effects), a
\* response without it (a checkpoint that is not Certified, or none; the
\* certificate or the effects missing), or an error.
Replies == {"complete", "lacking", "error"}

HasRequired_Any(reply) == reply # "error"

\* The patterns the map closures match the response against.
HasRequired(reply) == reply = "complete"

Suspected_Always(explicit) == TRUE

\* if authorities.is_some()
Suspected(explicit) == explicit

\* The error of a map closure for a response that lacks the data.
LackingError(req, explicit, name) ==
    IF req = "get_certified_checkpoint"
    THEN SuiError("GenericAuthorityError")
    ELSE IF req = "handle_cert_info_request"
    THEN SuiError("TransactionNotFound")
    ELSE IF Suspected(explicit)
         THEN ByzantineAuthoritySuspicion(name)
         ELSE SuiError("TransactionNotFound")

\* The map closures: `?` on the validator's error, Ok on a response with
\* the data, the closure's own error otherwise.
MapRequest(req, explicit, name, reply) ==
    IF reply = "error" THEN [ok |-> FALSE, err |-> SuiError("e1")]
    ELSE IF HasRequired(reply) THEN [ok |-> TRUE, err |-> NoError]
    ELSE [ok |-> FALSE, err |-> LackingError(req, explicit, name)]

RequestTime_NoTimeout(name) == behaviour[name].latency

\* timeout(timeout_each_authority, map): the time the request event takes
RequestTime(name) == Min(behaviour[name].latency, TimeoutEach)

\* ... and what it yields: Err(Elapsed), Ok(Err(e)) or Ok(Ok(res))
RequestResult(name) ==
    IF behaviour[name].latency > TimeoutEach THEN "elapsed"
    ELSE IF request = "-" THEN behaviour[name].outcome
    ELSE IF MapRequest(request, restricted, name, replies[name]).ok
         THEN "ok"
         ELSE "err"

\* The failures a request event can carry: Err(Elapsed) is recorded as
\* TimeoutError, Ok(Err(e)) as e.
RequestFailures(name) ==
    IF RequestResult(name) = "elapsed" THEN {SuiError("TimeoutError")}
    ELSE IF request = "-" THEN {SuiError(e) : e \in Errors}
    ELSE {MapRequest(request, restricted, name, replies[name]).err}

MapRemove(map, key) == [k \in DOMAIN map \ {key} |-> map[k]]

insert_KeepsFirst(map, name, err) ==
    IF name \in DOMAIN map THEN map ELSE MapPut(map, name, err)

\* authority_errors.insert(name, e)
insert(map, name, err) == MapPut(map, name, err)

\* History of a failed request: the failure, and whether the authority had
\* failed before.
Failure(name, err) ==
    [last |-> err, repeated |-> name \in DOMAIN failures]

\* The tail of the while-let body: start the next authority's request, or
\* break out of the round (the futures still pending are not polled again)
\* and sleep.
NextOrBreak(flying) ==
    IF authorities_shuffled # <<>>
    THEN /\ in_flight' = MapPut(flying, Head(authorities_shuffled),
                                RequestTime(Head(authorities_shuffled)))
         /\ authorities_shuffled' = Tail(authorities_shuffled)
         /\ once_pc' = "round"
         /\ abandoned' = abandoned
    ELSE /\ in_flight' = <<>>
         /\ authorities_shuffled' = <<>>
         /\ once_pc' = "sleep"
         /\ abandoned' = DOMAIN flying

\* authorities_shuffled.next().unwrap() on an empty order: the task panics.
Panicked == [status |-> "panic", value |-> "-"]

\* The head of the loop body: shuffle, start the first request and the
\* interval timer.
StartRound(order) ==
    /\ order \in Shuffles(candidates)
    /\ IF order = <<>>
       THEN /\ once_pc' = "done"
            /\ once_result' = Panicked
            /\ UNCHANGED <<in_flight, authorities_shuffled, next_timer>>
       ELSE /\ in_flight' = MapPut(<<>>, order[1], RequestTime(order[1]))
            /\ authorities_shuffled' = Tail(order)
            /\ next_timer' = interval
            /\ once_pc' = "round"
            /\ once_result' = once_result
    /\ abandoned' = {}

Backoff_Uncapped(d) == d * 2

\* delay = std::cmp::min(delay * 2, Duration::from_secs(5 * 60))
Backoff(d) == Min(d * 2, MaxDelay)

\* The call starts its first round.
OnceBegin(order) ==
    /\ once_pc = "start"
    /\ StartRound(order)
    /\ UNCHANGED <<candidates, behaviour, interval, total_left,
                   authority_errors, delay, failures, rounds>>
    /\ UNCHANGED <<driverVars, syncVars, certVars, moreVars>>

\* Event::StartNext: the interval elapsed; re-arm the timer.
StartNext ==
    /\ once_pc = "round"
    /\ next_timer = 0
    /\ next_timer' = interval
    /\ NextOrBreak(in_flight)
    /\ UNCHANGED <<candidates, behaviour, interval, total_left,
                   authority_errors, delay, once_result, failures,
                   rounds>>
    /\ UNCHANGED <<driverVars, syncVars, certVars, moreVars>>

\* Event::Request(name, res)
RequestCompleted(name) ==
    /\ once_pc = "round"
    /\ name \in DOMAIN in_flight
    /\ in_flight[name] = 0
    /\ IF RequestResult(name) = "ok"
       THEN /\ once_pc' = "done"
            /\ once_result' = [status |-> "ok", value |-> name]
            /\ in_flight' = <<>>
            /\ UNCHANGED <<authorities_shuffled, authority_errors, abandoned,
                           failures>>
       ELSE /\ \E err \in RequestFailures(name) :
                /\ authority_errors' = insert(authority_errors, name, err)
                /\ failures' = MapPut(failures, name, Failure(name, err))
            /\ NextOrBreak(MapRemove(in_flight, name))
            /\ once_result' = once_result
    /\ UNCHANGED <<candidates, behaviour, interval, total_left, next_timer,
                   delay, rounds>>
    /\ UNCHANGED <<driverVars, syncVars, certVars, moreVars>>

TimeLeft(t) == IF t = -1 THEN -1 ELSE t - 1

\* Time passes while a round waits for its next event.
Tick ==
    /\ once_pc = "round"
    /\ next_timer > 0
    /\ \A name \in DOMAIN in_flight : in_flight[name] > 0
    /\ total_left # 0
    /\ next_timer' = next_timer - 1
    /\ in_flight' = [name \in DOMAIN in_flight |-> in_flight[name] - 1]
    /\ total_left' = TimeLeft(total_left)
    /\ UNCHANGED <<candidates, behaviour, interval, authorities_shuffled,
                   authority_errors, delay, once_pc, once_result, abandoned,
                   failures, rounds>>
    /\ UNCHANGED <<driverVars, syncVars, certVars, moreVars>>

\* sleep(delay) is over: double the delay and start the next round.
Wake(order) ==
    /\ once_pc = "sleep"
    /\ total_left = -1 \/ total_left >= delay
    /\ total_left' = IF total_left = -1 THEN -1 ELSE total_left - delay
    /\ delay' = Backoff(delay)
    /\ rounds' = Min(rounds + 1, MaxRounds)
    /\ StartRound(order)
    /\ UNCHANGED <<candidates, behaviour, interval, authority_errors,
                   failures>>
    /\ UNCHANGED <<driverVars, syncVars, certVars, moreVars>>

OuterTimeoutArmed_Always(t) == TRUE

\* if let Some(t) = timeout_total
OuterTimeoutArmed(t) == t # -1

\* timeout_total elapsed: quorum_once_with_timeout maps the timeout to an
\* error.
TotalTimeout ==
    /\ once_pc \in {"round", "sleep"}
    /\ OuterTimeoutArmed(total_left)
    /\ IF once_pc = "round" THEN total_left = 0 ELSE total_left <= delay
    /\ once_pc' = "done"
    /\ once_result' =
          [status |-> "err",
           value |-> IF DOMAIN authority_errors = {}
                     THEN SuiError("TimeoutError")
                     ELSE [kind |-> "TooManyIncorrectAuthorities",
                           errors |-> authority_errors]]
    /\ in_flight' = <<>>
    /\ total_left' = Min(total_left, 0)
    /\ UNCHANGED <<candidates, behaviour, interval, authorities_shuffled,
                   next_timer, authority_errors, delay, abandoned, failures,
                   rounds>>
    /\ UNCHANGED <<driverVars, syncVars, certVars, moreVars>>

CandidateSets ==
    {{AuthorityOrder[i] : i \in 1..k} : k \in 1..MaxCandidates}

BehaviourRank(b) == 2 * b.latency + (IF b.outcome = "ok" THEN 0 ELSE 1)

\* The behaviours of a set of authorities, up to renaming of the
\* authorities: listed in non-decreasing order.
BehaviourProfiles(set) ==
    {f \in [set -> Behaviours] :
        \A i, j \in 1..Len(AuthorityOrder) :
            (i < j /\ AuthorityOrder[i] \in set /\ AuthorityOrder[j] \in set)
                => BehaviourRank(f[AuthorityOrder[i]])
                        <= BehaviourRank(f[AuthorityOrder[j]])}

OnceInit ==
    /\ MoreIdle
    /\ QuorumIdle
    /\ SyncIdle
    /\ CertIdle
    /\ candidates \in CandidateSets
    /\ behaviour \in BehaviourProfiles(candidates)
    /\ interval \in 0..MaxInterval
    /\ total_left \in {-1} \cup 1..MaxTotal
    /\ authorities_shuffled = <<>>
    /\ in_flight = <<>>
    /\ next_timer = 0
    /\ authority_errors = <<>>
    /\ delay = InitialDelay
    /\ once_pc = "start"
    /\ once_result = NoResult
    /\ abandoned = {}
    /\ failures = <<>>
    /\ rounds = 0

Begin == \E order \in Shuffles(candidates) : OnceBegin(order)

Completed == \E name \in Authorities : RequestCompleted(name)

Woken == \E order \in Shuffles(candidates) : Wake(order)

OnceNext ==
    \/ Begin
    \/ StartNext
    \/ Completed
    \/ Tick
    \/ Woken
    \/ TotalTimeout

OnceSpec == OnceInit /\ [][OnceNext]_vars

\* Time passes and ready events are handled.
OnceFairSpec == OnceSpec /\ WF_vars(OnceNext)

\* A call with a total timeout over one more candidate than OnceInit
\* allows, with the interval at zero, at the per-request timeout and above
\* it.
SerialInit ==
    /\ MoreIdle
    /\ QuorumIdle
    /\ SyncIdle
    /\ CertIdle
    /\ candidates = {AuthorityOrder[i] : i \in 1..(MaxCandidates + 1)}
    /\ behaviour \in BehaviourProfiles(candidates)
    /\ interval \in {0, TimeoutEach, TimeoutEach + 1}
    /\ total_left = MaxTotal
    /\ authorities_shuffled = <<>>
    /\ in_flight = <<>>
    /\ next_timer = 0
    /\ authority_errors = <<>>
    /\ delay = InitialDelay
    /\ once_pc = "start"
    /\ once_result = NoResult
    /\ abandoned = {}
    /\ failures = <<>>
    /\ rounds = 0

SerialSpec == SerialInit /\ [][OnceNext]_vars

\* handle_checkpoint_request (a bare map closure) and
\* get_certified_checkpoint: the caller passes the set of authorities, which
\* may be empty.
CheckpointInit ==
    /\ QuorumIdle
    /\ SyncIdle
    /\ CertIdle
    /\ ObjectsIdle
    /\ FetchIdle
    /\ RerunIdle
    /\ request \in {"-", "get_certified_checkpoint"}
    /\ restricted = (request # "-")
    /\ candidates \in {{}} \cup CandidateSets
    /\ behaviour \in BehaviourProfiles(candidates)
    /\ replies \in IF request = "-" THEN {<<>>} ELSE [candidates -> Replies]
    /\ interval \in {0, MaxInterval}
    /\ total_left \in {-1, MaxTotal}
    /\ authorities_shuffled = <<>>
    /\ in_flight = <<>>
    /\ next_timer = 0
    /\ authority_errors = <<>>
    /\ delay = InitialDelay
    /\ once_pc = "start"
    /\ once_result = NoResult
    /\ abandoned = {}
    /\ failures = <<>>
    /\ rounds = 0

CheckpointSpec == CheckpointInit /\ [][OnceNext]_vars

ReplyRank(name) ==
    3 * behaviour[name].latency
        + (IF replies[name] = "complete" THEN 0
           ELSE IF replies[name] = "lacking" THEN 1 ELSE 2)

\* A call of one of the three functions, with a total timeout; the
\* candidates are the set the caller passed, or the whole committee, and
\* the validators are listed in non-decreasing order of latency and reply.
InfoInit ==
    /\ QuorumIdle
    /\ SyncIdle
    /\ CertIdle
    /\ ObjectsIdle
    /\ FetchIdle
    /\ RerunIdle
    /\ request \in InfoRequests
    /\ restricted \in BOOLEAN
    /\ request = "get_certified_checkpoint" => restricted
    /\ request = "handle_cert_info_request" => ~restricted
    /\ candidates \in CandidateSets
    /\ behaviour \in [candidates ->
                        [latency : 1..(TimeoutEach + 1), outcome : {"ok"}]]
    /\ replies \in [candidates -> Replies]
    /\ \A i, j \in 1..Len(AuthorityOrder) :
          (i < j /\ AuthorityOrder[i] \in candidates
                 /\ AuthorityOrder[j] \in candidates)
              => ReplyRank(AuthorityOrder[i]) <= ReplyRank(AuthorityOrder[j])
    /\ interval \in {0, MaxInterval}
    /\ total_left = MaxTotal
    /\ authorities_shuffled = <<>>
    /\ in_flight = <<>>
    /\ next_timer = 0
    /\ authority_errors = <<>>
    /\ delay = InitialDelay
    /\ once_pc = "start"
    /\ once_result = NoResult
    /\ abandoned = {}
    /\ failures = <<>>
    /\ rounds = 0

InfoSpec == InfoInit /\ [][OnceNext]_vars


-----------------------------------------------------------------------------
(* The quorum driver with time *)

\* pre_quorum_timeout, in ticks
PreQuorumTimeout == 2

\* post_quorum_timeout, in ticks
PostQuorumTimeout == 1

\* The duration current_timeout holds.
Budget(timeout) ==
    IF timeout = "pre_quorum_timeout" THEN PreQuorumTimeout
    ELSE PostQuorumTimeout

\* A response arrives before timeout(current_timeout, responses.next())
\* elapses; the next loop iteration waits with a new timer.
TimedRespond ==
    /\ waited < Budget(current_timeout)
    /\ \E name \in Authorities : \E res \in MapResults(op) : Deliver(name, res)
    /\ waited' = 0
    /\ UNCHANGED <<clock, execVars>>

\* Time passes while the loop waits.
TimedTick ==
    /\ pc = "running"
    /\ waited < Budget(current_timeout)
    /\ waited' = waited + 1
    /\ clock' = clock + 1
    /\ UNCHANGED <<qVars, execVars, syncVars, onceVars, certVars, moreVars>>

\* The timer of the current wait elapses.
TimedTimeout ==
    /\ waited = Budget(current_timeout)
    /\ Expire
    /\ UNCHANGED <<execVars, timeVars>>

TimedInit ==
    /\ MoreIdle
    /\ SyncIdle
    /\ OnceIdle
    /\ CertIdle
    /\ op \in {"process_transaction", "process_certificate"}
    /\ entry_point = op
    /\ new_certificate = NoCertificate
    /\ clock = 0
    /\ waited = 0
    /\ committee \in {c \in Committees : \A a \in Authorities : c[a] = 1}
    /\ responses = DOMAIN committee
    /\ accumulated_state = InitialState(op)
    /\ current_timeout = "pre_quorum_timeout"
    /\ pc = "running"
    /\ result = NoResult
    /\ metrics = InitialMetrics
    /\ answered = <<>>
    /\ stalled = {}
    /\ last_out = NoReduceOutput
    /\ driver_result = NoResult

TimedNext ==
    \/ TimedRespond
    \/ TimedTick
    \/ TimedTimeout

TimedSpec == TimedInit /\ [][TimedNext]_vars


-----------------------------------------------------------------------------
(* execute_transaction *)

inc_Twice(counter) == counter + 2

\* IntCounter::inc
inc(counter) == counter + 1

\* The first `?` did not return: the certificate is counted and
\* process_certificate starts.
Proceed ==
    /\ entry_point = "execute_transaction"
    /\ op = "process_transaction"
    /\ pc = "done"
    /\ result.status = "ok"
    /\ new_certificate' = result.value
    /\ metrics' = [metrics EXCEPT
                    !.total_tx_certificates_created = inc(@)]
    /\ op' = "process_certificate"
    /\ responses' = DOMAIN committee
    /\ accumulated_state' = InitialState("process_certificate")
    /\ current_timeout' = "pre_quorum_timeout"
    /\ pc' = "running"
    /\ result' = NoResult
    /\ answered' = <<>>
    /\ stalled' = {}
    /\ last_out' = NoReduceOutput
    /\ driver_result' = NoResult
    /\ UNCHANGED <<committee, entry_point, timeVars>>
    /\ UNCHANGED <<syncVars, onceVars, certVars, moreVars>>

ExecInit ==
    /\ MoreIdle
    /\ SyncIdle
    /\ OnceIdle
    /\ CertIdle
    /\ entry_point = "execute_transaction"
    /\ new_certificate = NoCertificate
    /\ clock = 0
    /\ waited = 0
    /\ op = "process_transaction"
    /\ committee \in {c \in Committees : \A a \in Authorities : c[a] = 1}
    /\ responses = DOMAIN committee
    /\ accumulated_state = InitialState(op)
    /\ current_timeout = "pre_quorum_timeout"
    /\ pc = "running"
    /\ result = NoResult
    /\ metrics = InitialMetrics
    /\ answered = <<>>
    /\ stalled = {}
    /\ last_out = NoReduceOutput
    /\ driver_result = NoResult

ExecNext ==
    \/ Respond
    \/ Timeout
    \/ Proceed

ExecSpec == ExecInit /\ [][ExecNext]_vars


-----------------------------------------------------------------------------
(* process_certificate called twice on one certificate *)

\* What the map closure of process_certificate returns for a validator,
\* the same in both calls.
RerunAnswers ==
    [Authorities -> {Resp("effects", d) : d \in EffectsDigests}
                        \cup {Resp("none", "-"), Resp("err", "e1")}]

\* The effects digest a call returned and the validators that signed it.
Outcome(res) ==
    IF res.status = "ok"
    THEN [status |-> "ok", effects |-> res.value.effects,
          signers |-> Names(res.value.signatures)]
    ELSE [status |-> "err", effects |-> "-", signers |-> {}]

\* A validator's map future completes with its answer.
Answered ==
    /\ \E name \in Authorities : Deliver(name, answers[name])
    /\ UNCHANGED <<execVars, timeVars>>

\* The first call has returned; process_certificate is called again with
\* the same certificate.
Rerun ==
    /\ run = 1
    /\ pc = "done"
    /\ first_result' = Outcome(result)
    /\ run' = 2
    /\ responses' = DOMAIN committee
    /\ accumulated_state' = InitialState(op)
    /\ current_timeout' = "pre_quorum_timeout"
    /\ pc' = "running"
    /\ result' = NoResult
    /\ answered' = <<>>
    /\ stalled' = {}
    /\ last_out' = NoReduceOutput
    /\ driver_result' = NoResult
    /\ UNCHANGED <<op, committee, metrics, answers, execVars, timeVars>>
    /\ UNCHANGED <<syncVars, onceVars, certVars, rerunRest>>

RerunInit ==
    /\ SyncIdle
    /\ OnceIdle
    /\ CertIdle
    /\ ObjectsIdle
    /\ FetchIdle
    /\ InfoIdle
    /\ op = "process_certificate"
    /\ entry_point = op
    /\ new_certificate = NoCertificate
    /\ clock = 0
    /\ waited = 0
    /\ committee \in Committees
    /\ responses = DOMAIN committee
    /\ accumulated_state = InitialState(op)
    /\ current_timeout = "pre_quorum_timeout"
    /\ pc = "running"
    /\ result = NoResult
    /\ metrics = InitialMetrics
    /\ answered = <<>>
    /\ stalled = {}
    /\ last_out = NoReduceOutput
    /\ driver_result = NoResult
    /\ answers \in RerunAnswers
    /\ first_result = [status |-> "none", effects |-> "-", signers |-> {}]
    /\ run = 1

RerunNext ==
    \/ Answered
    \/ Timeout
    \/ Rerun

RerunSpec == RerunInit /\ [][RerunNext]_vars


-----------------------------------------------------------------------------
(* sync_certificate_to_authority and the map closure of process_certificate *)

\* pub const DEFAULT_RETRIES: usize = 4
DEFAULT_RETRIES == 4

\* A direct call of sync_certificate_to_authority has retries in 0..MaxRetries
MaxRetries == 2

\* The signers of a certificate: a quorum of the committee.
SignerSets ==
    {s \in SUBSET Authorities :
        StakeOf(committee, s) >= quorum_threshold(committee)}

\* The rejection sampling: the orders in which the while loop can draw
\* distinct candidates until it has n of them or none is left.
Samples(cands, n) ==
    {order \in [1..Min(n, Cardinality(cands)) -> cands] :
        \A i, j \in DOMAIN order : order[i] = order[j] => i = j}

\* timeout(timeout_period, sync_fut).await: Err(Elapsed), or Ok(inner_res)
\* with what sync_authority_source_to_destination returned.
PairwiseOutcomes ==
    {Resp("ok", "-"), Resp("timeout", "-")}
        \cup {Resp("err", e) : e \in Errors}

PairwiseSyncFailed(source, destination, err) ==
    [kind |-> "PairwiseSyncFailed", xsource |-> source,
     destination |-> destination, tx_digest |-> CertDigest,
     error |-> SuiError(err)]

\* client.report_client_error(err)
Report(client, err) == [to |-> client, error |-> err]

\* What the match on the outcome of one source reports.
Reported(source, outcome) ==
    IF outcome.kind = "err"
    THEN LET inner_err == PairwiseSyncFailed(source, destination_authority,
                                             outcome.val)
         IN  <<Report(source, inner_err),
               Report(destination_authority, inner_err)>>
    ELSE <<>>

Stops_Never(outcome) == FALSE

\* Ok(_) => return Ok(())
Stops(outcome) == outcome.kind = "ok"

\* The sources are sampled.
Sample(order) ==
    /\ cs_pc = "sample"
    /\ order \in Samples(signers, retries)
    /\ source_authorities' = order
    /\ cs_pc' = "try"
    /\ UNCHANGED <<call, signers, retries, destination_authority, tried,
                   reports, cs_result, ladder_pc, handle_calls, sync_calls,
                   map_result>>
    /\ UNCHANGED <<driverVars, syncVars, onceVars, moreVars>>

\* One iteration of the for loop over the sampled sources.
TrySourceStep(outcome) ==
    /\ cs_pc = "try"
    /\ Len(source_authorities) > 0
    /\ LET source_authority == Head(source_authorities)
       IN  /\ tried' = Append(tried, [source |-> source_authority,
                                      outcome |-> outcome])
           /\ reports' = reports \o Reported(source_authority, outcome)
    /\ source_authorities' = Tail(source_authorities)
    /\ IF Stops(outcome)
       THEN /\ cs_pc' = "done"
            /\ cs_result' = SyncOk
       ELSE UNCHANGED <<cs_pc, cs_result>>
    /\ UNCHANGED <<call, signers, retries, destination_authority, ladder_pc,
                   handle_calls, sync_calls, map_result>>

TrySource(outcome) ==
    /\ TrySourceStep(outcome)
    /\ UNCHANGED <<driverVars, syncVars, onceVars, moreVars>>

\* The loop ended without a success: Err(SuiError::AuthorityUpdateFailure)
SourcesExhausted ==
    /\ cs_pc = "try"
    /\ Len(source_authorities) = 0
    /\ cs_pc' = "done"
    /\ cs_result' = SyncErr("AuthorityUpdateFailure")
    /\ UNCHANGED <<call, signers, retries, destination_authority,
                   source_authorities, tried, reports, ladder_pc,
                   handle_calls, sync_calls, map_result>>
    /\ UNCHANGED <<driverVars, syncVars, onceVars, moreVars>>

\* Result<TransactionInfoResponse, SuiError> of client.handle_certificate
HandleCertificateResults ==
    CertificateResponses \cup {Resp("err", "ObjectErrors")}

NoMapResult == Resp("-", "-")

IsObjectErrors_AnyError(res) == res.kind = "err"

\* matches!(res, Err(SuiError::ObjectErrors { .. }))
IsObjectErrors(res) == res = Resp("err", "ObjectErrors")

\* The map closure's first handle_certificate and the two early returns.
HandleCertificate(res) ==
    /\ ladder_pc = "handle"
    /\ handle_calls' = Append(handle_calls, res)
    /\ IF res.kind # "err" \/ ~IsObjectErrors(res)
       THEN /\ map_result' = res
            /\ ladder_pc' = "done"
            /\ UNCHANGED <<retries, cs_pc, sync_calls>>
       ELSE /\ ladder_pc' = "sync"
            /\ retries' = DEFAULT_RETRIES
            /\ sync_calls' = Append(sync_calls, DEFAULT_RETRIES)
            /\ cs_pc' = "sample"
            /\ map_result' = map_result
    /\ UNCHANGED <<call, signers, destination_authority, source_authorities,
                   tried, reports, cs_result>>
    /\ UNCHANGED <<driverVars, syncVars, onceVars, moreVars>>

\* sync_certificate_to_authority(..).await.map_err(..)?
SyncReturned ==
    /\ ladder_pc = "sync"
    /\ cs_pc = "done"
    /\ IF cs_result.status = "ok"
       THEN /\ ladder_pc' = "retry"
            /\ map_result' = map_result
       ELSE /\ ladder_pc' = "done"
            /\ map_result' = Resp("err", cs_result.value.kind)
    /\ UNCHANGED <<call, signers, retries, destination_authority,
                   source_authorities, tried, reports, cs_pc, cs_result,
                   handle_calls, sync_calls>>
    /\ UNCHANGED <<driverVars, syncVars, onceVars, moreVars>>

\* Now try again: the second handle_certificate is the closure's value.
RetryHandleCertificate(res) ==
    /\ ladder_pc = "retry"
    /\ handle_calls' = Append(handle_calls, res)
    /\ map_result' = res
    /\ ladder_pc' = "done"
    /\ UNCHANGED <<call, signers, retries, destination_authority,
                   source_authorities, tried, reports, cs_pc, cs_result,
                   sync_calls>>
    /\ UNCHANGED <<driverVars, syncVars, onceVars, moreVars>>

CertInit ==
    /\ MoreIdle
    /\ QuorumIdle
    /\ SyncIdle
    /\ OnceIdle
    /\ call \in {"sync_certificate_to_authority", "process_certificate"}
    /\ signers \in SignerSets
    /\ destination_authority \in Authorities
    /\ source_authorities = <<>>
    /\ tried = <<>>
    /\ reports = <<>>
    /\ cs_result = NoResult
    /\ handle_calls = <<>>
    /\ map_result = NoMapResult
    /\ IF call = "sync_certificate_to_authority"
       THEN /\ retries \in 0..MaxRetries
            /\ sync_calls = <<retries>>
            /\ cs_pc = "sample"
            /\ ladder_pc = "idle"
       ELSE /\ retries = 0
            /\ sync_calls = <<>>
            /\ cs_pc = "idle"
            /\ ladder_pc = "handle"

Sampled == \E order \in Samples(signers, retries) : Sample(order)

Tried == \E outcome \in PairwiseOutcomes : TrySource(outcome)

Handled == \E res \in HandleCertificateResults : HandleCertificate(res)

Retried == \E res \in HandleCertificateResults : RetryHandleCertificate(res)

CertNext ==
    \/ Sampled
    \/ Tried
    \/ SourcesExhausted
    \/ Handled
    \/ SyncReturned
    \/ Retried

CertSpec == CertInit /\ [][CertNext]_vars


-----------------------------------------------------------------------------
(* process_certificate with a destination that lags behind: the driver, the
   map closure run for the lagging validator and the pairwise syncs it
   starts, in a committee of four validators of stake 1 that all answer
   within the timeouts *)

\* The validator that lags behind.
Lagging == "D"

\* The causal histories of cert over its first two ancestors.
LagHistories ==
    {h \in Histories :
        \A d \in Digests : Range(h[d]) \subseteq CertDigest..(CertDigest + 2)}

\* client.handle_certificate at the lagging validator: it executes cert once
\* it has applied every dependency of cert.
HandleAtDestination ==
    IF Range(dependencies[CertDigest]) \subseteq Range(applied)
    THEN Resp("effects", TrueDigest)
    ELSE Resp("err", "ObjectErrors")

\* The first handle_certificate of the map closure.
LagHandled == HandleCertificate(HandleAtDestination)

\* sync_authority_source_to_destination is called for the next source: the
\* stack and the two sets are fresh, the destination keeps what it applied.
StartPairwise ==
    /\ cs_pc = "try"
    /\ Len(source_authorities) > 0
    /\ sync_pc = "idle"
    /\ sync_pc' = "loop"
    /\ missing_certificates' = <<CertDigest>>
    /\ processed_certificates' = {}
    /\ attempted_certificates' = {}
    /\ fetched' = <<>>
    /\ sync_result' = NoResult
    /\ UNCHANGED <<dependencies, source_mode, destination_mode, applied>>
    /\ UNCHANGED <<driverVars, onceVars, certVars, moreVars>>

\* The loop of the pairwise sync, run for the source at the head of the list.
PairwiseStep ==
    /\ cs_pc = "try"
    /\ SyncNext

PairwiseOutcome_Elapsed(res) == Resp("timeout", "-")

\* What timeout(timeout_period, sync_fut).await yields when the sync returns
\* in time.
PairwiseOutcome(res) ==
    IF res.status = "ok" THEN Resp("ok", "-")
    ELSE Resp("err", res.value.kind)

\* The pairwise sync returned to the for loop.
PairwiseReturned ==
    /\ sync_pc = "done"
    /\ TrySourceStep(PairwiseOutcome(sync_result))
    /\ sync_pc' = "idle"
    /\ UNCHANGED <<dependencies, source_mode, destination_mode,
                   missing_certificates, processed_certificates,
                   attempted_certificates, applied, sync_result, fetched>>
    /\ UNCHANGED <<driverVars, onceVars, moreVars>>

\* Now try again, at the lagging validator.
LagRetried == RetryHandleCertificate(HandleAtDestination)

\* The futures of the driver: the up-to-date validators answer with the
\* effects, the lagging validator's future yields the value of its map
\* closure.
LagAnswered ==
    /\ \E name \in responses :
         IF name = destination_authority
         THEN /\ ladder_pc = "done"
              /\ Deliver(name, map_result)
         ELSE Deliver(name, Resp("effects", TrueDigest))
    /\ UNCHANGED <<execVars, timeVars>>

LagInit ==
    /\ MoreIdle
    /\ OnceIdle
    /\ op = "process_certificate"
    /\ entry_point = op
    /\ new_certificate = NoCertificate
    /\ clock = 0
    /\ waited = 0
    /\ committee = [a \in Authorities |-> 1]
    /\ responses = DOMAIN committee
    /\ accumulated_state = InitialState(op)
    /\ current_timeout = "pre_quorum_timeout"
    /\ pc = "running"
    /\ result = NoResult
    /\ metrics = InitialMetrics
    /\ answered = <<>>
    /\ stalled = {}
    /\ last_out = NoReduceOutput
    /\ driver_result = NoResult
    /\ dependencies \in LagHistories
    /\ source_mode = "honest"
    /\ destination_mode = "lagging"
    /\ missing_certificates = <<>>
    /\ processed_certificates = {}
    /\ attempted_certificates = {}
    /\ applied = <<>>
    /\ sync_pc = "idle"
    /\ sync_result = NoResult
    /\ fetched = <<>>
    /\ call = "process_certificate"
    /\ signers \in {s \in SignerSets : Lagging \notin s}
    /\ destination_authority = Lagging
    /\ source_authorities = <<>>
    /\ tried = <<>>
    /\ reports = <<>>
    /\ cs_result = NoResult
    /\ handle_calls = <<>>
    /\ map_result = NoMapResult
    /\ retries = 0
    /\ sync_calls = <<>>
    /\ cs_pc = "idle"
    /\ ladder_pc = "handle"

LagNext ==
    \/ LagHandled
    \/ Sampled
    \/ StartPairwise
    \/ PairwiseStep
    \/ PairwiseReturned
    \/ SourcesExhausted
    \/ SyncReturned
    \/ LagRetried
    \/ LagAnswered

LagSpec == LagInit /\ [][LagNext]_vars


-----------------------------------------------------------------------------
(* The rejection sampling of sync_certificate_to_authority_with_timeout_inner,
   one draw of committee.sample() per step *)

\* Stakes are non-negative; the committee holds some stake.
SampleCommittees ==
    {c \in [Authorities -> 0..MaxStake] : total_votes(c) >= 1}

\* candidate_source_authorties: the signers not yet drawn
Candidates == signers \ Range(source_authorities)

\* The names committee.sample() can return: a name is drawn with a frequency
\* proportional to its stake.
Support(cmt) == {name \in DOMAIN cmt : weight(cmt, name) > 0}

\* while source_authorities.len() < retries && !candidates.is_empty()
Sampling ==
    /\ cs_pc = "sample"
    /\ Len(source_authorities) < retries
    /\ Candidates # {}

\* One iteration of the while loop: a sample that is no candidate is
\* rejected.
Draw(sample_authority) ==
    /\ Sampling
    /\ sample_authority \in Support(committee)
    /\ source_authorities' =
            IF sample_authority \in Candidates
            THEN Append(source_authorities, sample_authority)
            ELSE source_authorities
    /\ UNCHANGED <<call, signers, retries, destination_authority, tried,
                   reports, cs_pc, cs_result, ladder_pc, handle_calls,
                   sync_calls, map_result>>
    /\ UNCHANGED <<driverVars, syncVars, onceVars, moreVars>>

\* The loop condition is false: the for loop over the sources begins.
SampleEnd ==
    /\ cs_pc = "sample"
    /\ ~Sampling
    /\ cs_pc' = "try"
    /\ UNCHANGED <<call, signers, retries, destination_authority,
                   source_authorities, tried, reports, cs_result, ladder_pc,
                   handle_calls, sync_calls, map_result>>
    /\ UNCHANGED <<driverVars, syncVars, onceVars, moreVars>>

SampleInit ==
    /\ MoreIdle
    /\ SyncIdle
    /\ OnceIdle
    /\ op = "process_transaction"
    /\ committee \in SampleCommittees
    /\ responses = {}
    /\ accumulated_state = InitialState(op)
    /\ current_timeout = "pre_quorum_timeout"
    /\ pc = "idle"
    /\ entry_point = "-"
    /\ new_certificate = NoCertificate
    /\ clock = 0
    /\ waited = 0
    /\ result = NoResult
    /\ metrics = InitialMetrics
    /\ answered = <<>>
    /\ stalled = {}
    /\ last_out = NoReduceOutput
    /\ driver_result = NoResult
    /\ call = "sync_certificate_to_authority"
    /\ signers \in SignerSets
    /\ destination_authority \in {"A", "D"}
    /\ source_authorities = <<>>
    /\ tried = <<>>
    /\ reports = <<>>
    /\ cs_result = NoResult
    /\ handle_calls = <<>>
    /\ map_result = NoMapResult
    /\ retries \in {0, 1, DEFAULT_RETRIES}
    /\ sync_calls = <<retries>>
    /\ cs_pc = "sample"
    /\ ladder_pc = "idle"

Drawn == \E sample_authority \in Authorities : Draw(sample_authority)

SampleNext ==
    \/ Drawn
    \/ SampleEnd

SampleSpec == SampleInit /\ [][SampleNext]_vars

\* The loop keeps drawing, and a name of positive stake that could be drawn
\* forever is drawn eventually.
SampleFairSpec == SampleSpec /\ WF_vars(SampleNext)


-----------------------------------------------------------------------------
(* sync_all_given_objects *)

ObjectIDs == {"x", "y"}

\* The object versions a validator can report.
MaxVersion == 2

\* TransactionDigest::genesis(), the digest of a tuple with no parent
\* certificate
GenesisDigest == 0

\* The digests of the parent certificates validators can report.
ParentDigests == {CertDigest, CertDigest + 1}

\* The keys (ObjectRef, TransactionDigest) of get_object_by_id's map for one
\* object id.  `deleted` stands for the object digest of the reference: the
\* validator holds no object at that version (object_and_lock is None).
ObjectKeys ==
    [version : 1..MaxVersion, deleted : BOOLEAN,
     tx : {GenesisDigest} \cup ParentDigests]

\* The order of the map's keys: by version, then object digest, then
\* transaction digest.
KeyLess(a, b) ==
    \/ a.version < b.version
    \/ /\ a.version = b.version
       /\ \/ ~a.deleted /\ b.deleted
          \/ a.deleted = b.deleted /\ a.tx < b.tx

\* One entry of the map: the key and the authorities that responded with it.
ObjectTuples == [key : ObjectKeys, listed : (SUBSET Authorities) \ {{}}]

NoTuple ==
    [key |-> [version |-> 0, deleted |-> FALSE, tx |-> GenesisDigest],
     listed |-> {}]

\* What get_object_by_id can return for an id: every validator contributes
\* to at most one entry.
AggregateInfos ==
    {{}} \cup {{t} : t \in ObjectTuples}
         \cup {{p[1], p[2]} :
                 p \in {q \in ObjectTuples \X ObjectTuples :
                          /\ KeyLess(q[1].key, q[2].key)
                          /\ q[1].listed \cap q[2].listed = {}}}

PopHighest_Lowest(info) ==
    CHOOSE t \in info : \A u \in info \ {t} : KeyLess(t.key, u.key)

\* aggregate_object_info.pop(): the last entry of the collected BTreeMap
PopHighest(info) ==
    CHOOSE t \in info : \A u \in info \ {t} : KeyLess(u.key, t.key)

\* (obj, layout_option, cert) / (object_ref, cert)
ObjectResult(id, key, cert) ==
    [id |-> id, object |-> key, certificate |-> cert]

\* The while loop over the entries of one object id.
RECURSIVE PopLoop(_, _, _)
PopLoop(id, info, out) ==
    IF info = {} THEN out
    ELSE LET top == PopHighest(info)
         IN  IF top.key.tx = GenesisDigest
             THEN PopLoop(id, info \ {top},
                      [out EXCEPT !.active =
                          IF top.key.deleted THEN @
                          ELSE Append(@, ObjectResult(id, top.key, {}))])
             ELSE [out EXCEPT
                      !.selected = top,
                      !.active =
                          IF top.key.deleted THEN @
                          ELSE Append(@, ObjectResult(id, top.key,
                                                      {top.key.tx})),
                      !.deleted =
                          IF top.key.deleted
                          THEN Append(@, ObjectResult(id, top.key,
                                                      {top.key.tx}))
                          ELSE @]

\* certs_to_sync.entry(digest).or_insert((cert, HashSet::new())).1.extend(..)
Extend(map, digest, names) ==
    MapPut(map, digest,
           (IF digest \in DOMAIN map THEN map[digest] ELSE {}) \cup names)

\* The highest version among the entries of a map; 0 when there is none.
MaxVersionOf(info) ==
    IF info = {} THEN 0
    ELSE CHOOSE v \in {t.key.version : t \in info} :
             \A t \in info : t.key.version <= v

\* One iteration of the loop over the object ids, get_object_by_id having
\* returned info.
GetObject(info) ==
    /\ objects_pc = "objects"
    /\ object_index < Len(objects)
    /\ LET id == objects[object_index + 1]
           out == PopLoop(id, info, [active |-> active_objects,
                                     deleted |-> deleted_objects,
                                     selected |-> NoTuple])
       IN  /\ active_objects' = out.active
           /\ deleted_objects' = out.deleted
           /\ certs_to_sync' =
                 IF out.selected = NoTuple THEN certs_to_sync
                 ELSE Extend(certs_to_sync, out.selected.key.tx,
                             Authorities \ out.selected.listed)
           /\ selected' = Append(selected, out.selected)
           /\ reported' =
                 Append(reported,
                        [highest |-> MaxVersionOf(info),
                         certified |->
                            MaxVersionOf({t \in info :
                                            t.key.tx # GenesisDigest})])
    /\ object_index' = object_index + 1
    /\ objects_pc' =
          IF object_index + 1 = Len(objects) THEN "syncs" ELSE "objects"
    /\ UNCHANGED <<objects, synced, objects_result>>
    /\ UNCHANGED <<coreVars, objectRest>>

\* get_object_by_id(..).await? returns the error of the quorum driver.
GetObjectFailed ==
    /\ objects_pc = "objects"
    /\ object_index < Len(objects)
    /\ objects_pc' = "done"
    /\ objects_result' =
          [status |-> "err", value |-> SuiError("TooManyIncorrectAuthorities")]
    /\ UNCHANGED <<objects, object_index, active_objects, deleted_objects,
                   certs_to_sync, synced, reported, selected>>
    /\ UNCHANGED <<coreVars, objectRest>>

\* One iteration of the loop over certs_to_sync, in the order of the
\* digests: sync_certificate_to_authority for every authority of the
\* entry, the results being dropped.
SyncNextCertificate ==
    /\ objects_pc = "syncs"
    /\ DOMAIN certs_to_sync # {}
    /\ LET digest == CHOOSE d \in DOMAIN certs_to_sync :
                         \A e \in DOMAIN certs_to_sync : d <= e
       IN  /\ synced' = synced \cup
                          {<<digest, name>> : name \in certs_to_sync[digest]}
           /\ certs_to_sync' = MapRemove(certs_to_sync, digest)
    /\ UNCHANGED <<objects, object_index, active_objects, deleted_objects,
                   reported, selected, objects_pc, objects_result>>
    /\ UNCHANGED <<coreVars, objectRest>>

\* Ok((active_objects, deleted_objects))
ReturnObjects ==
    /\ objects_pc = "syncs"
    /\ DOMAIN certs_to_sync = {}
    /\ objects_pc' = "done"
    /\ objects_result' = [status |-> "ok", value |-> "-"]
    /\ UNCHANGED <<objects, object_index, active_objects, deleted_objects,
                   certs_to_sync, synced, reported, selected>>
    /\ UNCHANGED <<coreVars, objectRest>>

ObjectsInit ==
    /\ QuorumIdle
    /\ SyncIdle
    /\ OnceIdle
    /\ CertIdle
    /\ FetchIdle
    /\ RerunIdle
    /\ InfoIdle
    /\ objects \in {<<>>, <<"x", "y">>}
    /\ object_index = 0
    /\ active_objects = <<>>
    /\ deleted_objects = <<>>
    /\ certs_to_sync = <<>>
    /\ synced = {}
    /\ reported = <<>>
    /\ selected = <<>>
    /\ objects_pc = IF objects = <<>> THEN "syncs" ELSE "objects"
    /\ objects_result = NoResult

\* Authorities the ids handled so far do not tell apart: each is listed in
\* the same tuples the loop stopped at.
SameSoFar(a, b) ==
    \A k \in 1..Len(selected) :
        a \in selected[k].listed <=> b \in selected[k].listed

\* 1 for the authorities of the highest entry, 2 for those of another
\* entry, 3 for those of none.
Slot(info, a) ==
    IF a \in UNION {t.listed : t \in info}
    THEN (IF a \in PopHighest(info).listed THEN 1 ELSE 2)
    ELSE 3

\* The answers for the next id, up to renaming of the authorities.
NextInfos ==
    {info \in AggregateInfos :
        \A i, j \in 1..Len(AuthorityOrder) :
            (i < j /\ SameSoFar(AuthorityOrder[i], AuthorityOrder[j]))
                => Slot(info, AuthorityOrder[i])
                       <= Slot(info, AuthorityOrder[j])}

ObjectFetched ==
    /\ objects_pc = "objects"
    /\ \E info \in NextInfos : GetObject(info)

ObjectsNext ==
    \/ ObjectFetched
    \/ GetObjectFailed
    \/ SyncNextCertificate
    \/ ReturnObjects

ObjectsSpec == ObjectsInit /\ [][ObjectsNext]_vars


-----------------------------------------------------------------------------
(* fetch_objects_from_authorities / fetch_one_object *)

\* The refs a call can ask for, and the capacities of the channel.
MaxRefs == 3

MaxChannelBound == 2

ObjectRefs == 1..MaxRefs

\* What one authority's request yields within fetch_one_object: the timeout
\* elapsed, an error, a response with no object, an object of another
\* digest, or the object asked for (or a shared object).
ObjectResponses == {"elapsed", "error", "no_object", "other_digest", "object"}

FetchedOk(ref) == [status |-> "ok", object |-> ref]

ObjectFetchFailed(ref) == [status |-> "ObjectFetchFailed", object |-> ref]

\* ret_val: the first response holding the object, if any
RetVal(ref, results) ==
    IF \E a \in Authorities : results[a] = "object"
    THEN FetchedOk(ref)
    ELSE ObjectFetchFailed(ref)

NoTask == [state |-> "none", ret_val |-> [status |-> "-", object |-> 0]]

Unspawned == {ref \in object_refs : tasks[ref].state = "none"}

\* One iteration of the for loop: sender.clone() and tokio::spawn
SpawnFetch ==
    /\ fetch_pc = "spawning"
    /\ Unspawned # {}
    /\ LET ref == CHOOSE r \in Unspawned : \A q \in Unspawned : r <= q
       IN  tasks' = [tasks EXCEPT ![ref].state = "fetching"]
    /\ senders' = senders + 1
    /\ UNCHANGED <<object_refs, channel_bound, channel, received, fetch_pc,
                   end_of_stream>>
    /\ UNCHANGED <<coreVars, fetchRest>>

DropSender_Kept(n) == n

\* drop(sender)
DropSender(n) == n - 1

\* The loop is over: the function drops its sender and hands out the
\* receiver.
ReturnReceiver ==
    /\ fetch_pc = "spawning"
    /\ Unspawned = {}
    /\ senders' = DropSender(senders)
    /\ fetch_pc' = "returned"
    /\ UNCHANGED <<object_refs, channel_bound, tasks, channel, received,
                   end_of_stream>>
    /\ UNCHANGED <<coreVars, fetchRest>>

\* fetch_one_object up to its send: join_all over the authorities, each
\* request under its timeout, then the scan for the object.
FetchOne(ref, results) ==
    /\ tasks[ref].state = "fetching"
    /\ tasks' = [tasks EXCEPT ![ref] = [state |-> "sending",
                                        ret_val |-> RetVal(ref, results)]]
    /\ UNCHANGED <<object_refs, channel_bound, channel, senders, received,
                   fetch_pc, end_of_stream>>
    /\ UNCHANGED <<coreVars, fetchRest>>

\* sender.send(ret_val).await completes when the channel has room; the task
\* ends and its sender is dropped.
SendResult(ref) ==
    /\ tasks[ref].state = "sending"
    /\ Len(channel) < channel_bound
    /\ channel' = Append(channel, tasks[ref].ret_val)
    /\ tasks' = [tasks EXCEPT ![ref].state = "done"]
    /\ senders' = senders - 1
    /\ UNCHANGED <<object_refs, channel_bound, received, fetch_pc,
                   end_of_stream>>
    /\ UNCHANGED <<coreVars, fetchRest>>

\* receiver.recv().await yields Some(result)
Receive ==
    /\ fetch_pc = "returned"
    /\ ~end_of_stream
    /\ channel # <<>>
    /\ received' = Append(received, Head(channel))
    /\ channel' = Tail(channel)
    /\ UNCHANGED <<object_refs, channel_bound, tasks, senders, fetch_pc,
                   end_of_stream>>
    /\ UNCHANGED <<coreVars, fetchRest>>

\* receiver.recv().await yields None: the channel is empty and every sender
\* is gone.
ReceiveEnd ==
    /\ fetch_pc = "returned"
    /\ ~end_of_stream
    /\ channel = <<>>
    /\ senders = 0
    /\ end_of_stream' = TRUE
    /\ UNCHANGED <<object_refs, channel_bound, tasks, channel, senders,
                   received, fetch_pc>>
    /\ UNCHANGED <<coreVars, fetchRest>>

FetchInit ==
    /\ QuorumIdle
    /\ SyncIdle
    /\ OnceIdle
    /\ CertIdle
    /\ ObjectsIdle
    /\ RerunIdle
    /\ InfoIdle
    /\ object_refs \in SUBSET ObjectRefs
    /\ channel_bound \in 1..MaxChannelBound
    /\ tasks = [ref \in object_refs |-> NoTask]
    /\ channel = <<>>
    /\ senders = 1
    /\ received = <<>>
    /\ fetch_pc = "spawning"
    /\ end_of_stream = FALSE

Fetched ==
    \E ref \in object_refs :
        /\ tasks[ref].state = "fetching"
        /\ \E results \in [Authorities -> ObjectResponses] :
              FetchOne(ref, results)

Sent == \E ref \in object_refs : SendResult(ref)

FetchNext ==
    \/ SpawnFetch
    \/ ReturnReceiver
    \/ Fetched
    \/ Sent
    \/ Receive
    \/ ReceiveEnd

FetchSpec == FetchInit /\ [][FetchNext]_vars

\* The runtime runs every spawned task and the caller keeps receiving.
FetchFairSpec == FetchSpec /\ WF_vars(FetchNext)


-----------------------------------------------------------------------------
(* Properties of the quorum protocols (Spec) *)

Done(o) == op = o /\ pc = "done"

Ok(o) == Done(o) /\ result.status = "ok"

Failed(o) == Done(o) /\ result.status = "err"

\* The fan-out ended: every response was reduced or the wait budget expired.
FanOutEnded == DOMAIN answered = DOMAIN committee \/ stalled # {}

\* C1: process_transaction hands certificate construction only signatures
\* of pairwise distinct validators, none of them from a response counted as
\* bad, whose stakes sum to exactly good_stake, which is >= Q; so the
\* construction never rejects them.
C1_CertificateSigners ==
    op = "process_transaction" =>
        /\ Failed(op) => result.value.kind # "InvalidCertificate"
        /\ accumulated_state.certificate.origin = "formed" =>
            LET sigs == accumulated_state.certificate.signatures
            IN  /\ sigs = accumulated_state.signatures
                /\ Distinct(sigs)
                /\ Names(sigs) \cap Deviant = {}
                /\ \A n \in Names(sigs) : answered[n].kind = "signed"
                /\ StakeOf(committee, Names(sigs)) =
                        accumulated_state.good_stake
                /\ accumulated_state.good_stake >=
                        quorum_threshold(committee)

\* A certificate was formed from votes although another validator failed.
C1_Witness ==
    /\ Ok("process_transaction")
    /\ result.value.origin = "formed"
    /\ Deviant # {}

\* The stake of the validators that failed or did not respond in time.
FaultyStake == StakeOf(committee, Deviant \cup stalled)

Succeeded ==
    /\ result.status = "ok"
    /\ op = "process_transaction" => result.value.some

\* C2 as stated: with at most V-1 stake failing or stalling,
\* process_transaction and process_certificate return Ok.
C2_Original ==
    (/\ op \in {"process_transaction", "process_certificate"}
     /\ pc = "done"
     /\ FaultyStake <= validity_threshold(committee) - 1)
        => Succeeded

\* C2, amended: with at most S-Q stake failing or stalling,
\* process_transaction and process_certificate return Ok, in every arrival
\* order.
C2_LivenessWithinQuorumSlack ==
    (/\ op \in {"process_transaction", "process_certificate"}
     /\ pc = "done"
     /\ FaultyStake <= total_votes(committee) - quorum_threshold(committee))
        => Succeeded

\* process_certificate succeeded although a validator never responded.
C2_Witness ==
    /\ Ok("process_certificate")
    /\ stalled # {}
    /\ FaultyStake <= total_votes(committee) - quorum_threshold(committee)

\* The validators that returned signed effects with the given digest.
Returned(digest) ==
    {n \in DOMAIN answered : answered[n] = Resp("effects", digest)}

\* C3: process_certificate returns Ok only with effects whose digest has
\* stake >= Q from distinct validators, signed by exactly the validators
\* that returned that digest, each signature over that digest.
C3_CertifiedEffects ==
    Ok("process_certificate") =>
        LET sigs == result.value.signatures
            digest == result.value.effects
        IN  /\ Distinct(sigs)
            /\ Names(sigs) = Returned(digest)
            /\ StakeOf(committee, Names(sigs)) >= quorum_threshold(committee)
            /\ \A i \in DOMAIN sigs :
                    sigs[i][2] = Signature(sigs[i][1], digest)

\* The certified effects hold the signature of a straggler: the signers
\* before the last one already were a quorum.
C3_Witness ==
    /\ Ok("process_certificate")
    /\ LET sigs == result.value.signatures
       IN  /\ Len(sigs) >= 2
           /\ StakeOf(committee, Names(SubSeq(sigs, 1, Len(sigs) - 1)))
                    >= quorum_threshold(committee)

\* C6: process_transaction fails as soon as bad_stake exceeds V, with the
\* single distinct error when there is exactly one and good_stake is 0,
\* otherwise with QuorumNotReached carrying the distinct errors.
C6_FailureClassification ==
    op = "process_transaction" =>
        LET st == accumulated_state
            unique == Range(st.errors)
            exceeded == st.bad_stake > validity_threshold(committee)
        IN  /\ pc = "running" => ~exceeded
            /\ (pc = "done" /\ exceeded) =>
                /\ result.status = "err"
                /\ IF Cardinality(unique) = 1 /\ st.good_stake = 0
                   THEN \E e \in unique : result.value.kind = e.kind
                   ELSE /\ result.value.kind = "QuorumNotReached"
                        /\ result.value.errors = unique
            /\ (Failed(op) /\ ~exceeded) =>
                /\ FanOutEnded
                /\ result.value.kind =
                    "ErrorWhileProcessingTransactionTransaction(No certificate)"

\* Four validators of stake 1, errors e1 and e2 and no vote: QuorumNotReached
\* with both errors.
C6_Witness ==
    /\ Failed("process_transaction")
    /\ \A a \in Authorities : committee[a] = 1
    /\ accumulated_state.good_stake = 0
    /\ result.value.kind = "QuorumNotReached"
    /\ result.value.errors = {SuiError("e1"), SuiError("e2")}

\* C7: process_certificate fails with QuorumFailedToExecuteCertificate and
\* the errors collected so far as soon as bad_stake exceeds V, and when the
\* fan-out ends with no effects digest at stake >= Q; it fails in no other
\* case.
C7_CertificateFailure ==
    op = "process_certificate" =>
        LET st == accumulated_state
            exceeded == st.bad_stake > validity_threshold(committee)
            quorum == \E d \in DOMAIN st.effects_map :
                        st.effects_map[d].stake >= quorum_threshold(committee)
        IN  /\ pc = "running" => ~exceeded
            /\ (pc = "done" /\ (exceeded \/ ~quorum)) =>
                /\ result.status = "err"
                /\ result.value.kind = "QuorumFailedToExecuteCertificate"
                /\ result.value.errors = st.errors
            /\ Failed(op) => (exceeded \/ (FanOutEnded /\ ~quorum))

\* The failure was returned while responses were still awaited.
C7_Witness ==
    /\ Failed("process_certificate")
    /\ accumulated_state.bad_stake > validity_threshold(committee)
    /\ ~FanOutEnded

\* C8: when the validators that do not answer the true effects hold at
\* most V-1 stake, execute_cert_to_true_effects returns Ok only with the
\* true effects digest, and it ends as soon as one digest reaches V.
C8_TrueEffects ==
    op = "execute_cert_to_true_effects" =>
        LET st == accumulated_state
            validity == validity_threshold(committee)
        IN  /\ (Ok(op) /\ StakeOf(committee, Deviant) <= validity - 1)
                => result.value.digest = TrueDigest
            /\ pc = "running" =>
                \A d \in DOMAIN st.digests : st.digests[d] < validity
            /\ Ok(op) =>
                /\ st.digests[result.value.digest] >= validity
                /\ \A d \in DOMAIN st.digests \ {result.value.digest} :
                        st.digests[d] < validity

\* The true effects were returned although a validator answered another
\* digest.
C8_Witness ==
    /\ Ok("execute_cert_to_true_effects")
    /\ result.value.digest = TrueDigest
    /\ \E n \in DOMAIN answered : answered[n] = Resp("effects", "d2")
    /\ StakeOf(committee, Deviant) <= validity_threshold(committee) - 1


-----------------------------------------------------------------------------
(* Properties of sync_authority_source_to_destination (SyncSpec) *)

\* The position at which the destination handler accepted a digest.
AppliedAt(d) == CHOOSE i \in DOMAIN applied : applied[i] = d

SyncReturnedOk == sync_pc = "done" /\ sync_result.status = "ok"

\* C4: whenever the sync returns Ok, every dependency listed in the effects
\* obtained for cert from the source has been accepted by the destination
\* handler, and before cert was.
C4_CausalOrder ==
    (SyncReturnedOk /\ CertDigest \in attempted_certificates) =>
        \A d \in Range(dependencies[CertDigest]) :
            /\ d \in Range(applied)
            /\ CertDigest \in Range(applied) =>
                    AppliedAt(d) < AppliedAt(CertDigest)

\* Every transaction of the history has at most one dependency.
IsChain == \A d \in Digests : Len(dependencies[d]) <= 1

\* C5: with an honest source and a lagging destination the sync returns Ok
\* for a dependency chain of any length, and the destination then accepts
\* cert.
C5_ChainOfAnyDepth ==
    (/\ sync_pc = "done"
     /\ source_mode = "honest"
     /\ destination_mode = "lagging"
     /\ IsChain)
        => /\ sync_result.status = "ok"
           /\ Range(dependencies[CertDigest]) \subseteq Range(applied)

-----------------------------------------------------------------------------
(* Properties of quorum_once_with_timeout (OnceSpec, OnceFairSpec) *)

\* C9: a round is abandoned only after every validator of the shuffled
\* order was dispatched and every dispatched request completed; no request
\* is dropped while in flight (stated for a positive hedging interval).
C9_NoRequestAbandoned ==
    (once_pc = "sleep" /\ interval >= 1) =>
        /\ authorities_shuffled = <<>>
        /\ abandoned = {}

\* A validator that answers every request successfully within the per-call
\* timeout.
Healthy(name) ==
    /\ behaviour[name].outcome = "ok"
    /\ behaviour[name].latency <= TimeoutEach

\* C10: with no outer timeout and a healthy validator among the candidates,
\* the call eventually returns a success (stated for a positive hedging
\* interval).
C10_EventuallySucceeds ==
    (/\ total_left = -1
     /\ interval >= 1
     /\ \E name \in candidates : Healthy(name))
        => <>(once_pc = "done" /\ once_result.status = "ok")

\* The outer timeout ended the call.
OnceFailed == once_pc = "done" /\ once_result.status = "err"

\* C11: when the outer timeout fires, the call fails with TimeoutError
\* exactly when no request failure was recorded, and otherwise with
\* TooManyIncorrectAuthorities whose errors hold one entry for every
\* validator that failed at least once: its most recent failure.
C11_OuterTimeoutErrors ==
    OnceFailed =>
        LET err == once_result.value
        IN  /\ (err.kind = "TimeoutError") <=> (DOMAIN failures = {})
            /\ DOMAIN failures # {} =>
                /\ err.kind = "TooManyIncorrectAuthorities"
                /\ DOMAIN err.errors = DOMAIN failures
                /\ \A name \in DOMAIN failures :
                        err.errors[name] = failures[name].last

\* The outer timeout fired after a validator had failed in two rounds with
\* different errors.
C11_Witness ==
    /\ OnceFailed
    /\ once_result.value.kind = "TooManyIncorrectAuthorities"
    /\ \E name \in DOMAIN failures :
            /\ failures[name].repeated
            /\ failures[name].last = SuiError("e2")
            /\ once_result.value.errors[name] = SuiError("e2")

\* C12: with timeout_total = None the call never returns an error; after a
\* failed round it sleeps and another round can always start; it returns
\* only the success of a validator's request.
C12_NeverFailsWithoutTotal ==
    total_left = -1 =>
        /\ ~OnceFailed
        /\ once_pc = "sleep" => (delay <= MaxDelay /\ ENABLED Woken)
        /\ once_pc = "done" =>
            /\ once_result.status = "ok"
            /\ once_result.value \in candidates
            /\ RequestResult(once_result.value) = "ok"

\* No timeout_total, and the backoff has reached its cap.
C12_Witness ==
    /\ total_left = -1
    /\ once_pc = "sleep"
    /\ delay = MaxDelay
    /\ DOMAIN failures = candidates

-----------------------------------------------------------------------------
(* Properties of the quorum driver (Spec) *)

Continuing == {"-", "Continue", "ContinueWithTimeout"}

\* C13: the driver returns Ok(S) at once when the reducer returns End(S)
\* and the reducer's error at once when the reducer fails; otherwise it
\* returns Ok(accumulated state), never an error, and only when every
\* response was reduced or no response arrived within the wait budget.
C13_DriverReturn ==
    /\ pc = "running" =>
            (last_out.out \in Continuing /\ driver_result = NoResult)
    /\ pc = "done" =>
        /\ last_out.out = "End" =>
                driver_result = DriverOk(accumulated_state)
        /\ last_out.out = "Err" =>
                driver_result = DriverErr(last_out.err)
        /\ last_out.out \in Continuing =>
            /\ driver_result = DriverOk(accumulated_state)
            /\ FanOutEnded
        /\ driver_result.status = "err" => last_out.out = "Err"

\* The driver returned Ok(state) after a wait that no response ended,
\* following ContinueWithTimeout.
C13_Witness ==
    /\ pc = "done"
    /\ last_out.out = "ContinueWithTimeout"
    /\ stalled # {}
    /\ driver_result = DriverOk(accumulated_state)

\* A step in which the reducer runs.
ReducerRuns ==
    answered' # answered \/ accumulated_state' # accumulated_state

\* C14: the map function is launched once for every committee member; the
\* reducer runs only on the arrival of the response of a validator whose
\* response it has not seen, with that validator's committee stake, one
\* response per step, and never after it returned End or a failure.
C14_MapOnceReduceOnce ==
    /\ responses = DOMAIN committee
    /\ answered = <<>>
    /\ [][/\ responses' \subseteq responses
          /\ ReducerRuns =>
              /\ pc = "running"
              /\ last_out.out \in Continuing
              /\ \E name \in responses \ DOMAIN answered :
                    /\ DOMAIN answered' = DOMAIN answered \cup {name}
                    /\ \A n \in DOMAIN answered : answered'[n] = answered[n]
                    /\ accumulated_state' =
                            reduce_result(op, accumulated_state, name,
                                          committee[name], answered'[name],
                                          committee).state
                    /\ name \notin responses']_vars

\* All four responses were reduced, the last authority's first.
C14_Witness ==
    /\ op = "process_transaction"
    /\ DOMAIN answered = DOMAIN committee
    /\ Len(accumulated_state.errors) = 1
    /\ Len(accumulated_state.signatures) = 3
    /\ accumulated_state.signatures[1][1] = "D"
    /\ accumulated_state.signatures[3][1] = "A"

-----------------------------------------------------------------------------
(* Properties of sync_certificate_to_authority and of the map closure of
   process_certificate (CertSpec) *)

\* The sources contacted so far, in order.
Contacted == [i \in DOMAIN tried |-> tried[i].source]

SourceFailed(i) == tried[i].outcome.kind # "ok"

\* C15: the sampled sources are tried one at a time in sampled order; the
\* call returns Ok at the first source whose sync completes Ok and contacts
\* no later source; it returns AuthorityUpdateFailure exactly when every
\* sampled source failed or timed out, also when none was sampled.
C15_SourcesInOrder ==
    cs_pc \in {"try", "done"} =>
        LET sampled == Contacted \o source_authorities
        IN  /\ Len(sampled) = Min(retries, Cardinality(signers))
            /\ \A i, j \in DOMAIN sampled : sampled[i] = sampled[j] => i = j
            /\ Range(sampled) \subseteq signers
            /\ \A i \in DOMAIN tried : i < Len(tried) => SourceFailed(i)
            /\ cs_pc = "try" => \A i \in DOMAIN tried : SourceFailed(i)
            /\ cs_pc = "done" =>
                /\ cs_result.status = "ok" <=>
                        (tried # <<>> /\ ~SourceFailed(Len(tried)))
                /\ cs_result.status = "err" <=>
                        /\ Len(source_authorities) = 0
                        /\ \A i \in DOMAIN tried : SourceFailed(i)
                /\ cs_result.status = "err" =>
                        cs_result.value.kind = "AuthorityUpdateFailure"

\* The second source succeeded after the first timed out, and a third
\* sampled source was never contacted.
C15_Witness ==
    /\ cs_pc = "done"
    /\ cs_result.status = "ok"
    /\ Len(tried) = 2
    /\ tried[1].outcome.kind = "timeout"
    /\ Len(source_authorities) > 0

\* A PairwiseSyncFailed about the source was reported to the client.
ReportedTo(client, source) ==
    \E i \in DOMAIN reports :
        /\ reports[i].to = client
        /\ reports[i].error.kind = "PairwiseSyncFailed"
        /\ reports[i].error.xsource = source
        /\ reports[i].error.destination = destination_authority
        /\ reports[i].error.tx_digest = CertDigest

\* C16: for every sampled source whose sync timed out or returned an error
\* a PairwiseSyncFailed is reported to the source's and to the
\* destination's client, and the failure does not end the call: it ends
\* in failure only when no sampled source is left.
C16_PairwiseFailureReported ==
    /\ \A i \in DOMAIN tried :
            SourceFailed(i) =>
                /\ ReportedTo(tried[i].source, tried[i].source)
                /\ ReportedTo(destination_authority, tried[i].source)
    /\ (cs_pc = "done" /\ cs_result.status = "err") =>
            Len(source_authorities) = 0

\* C17: the map closure calls handle_certificate once; it runs
\* sync_certificate_to_authority, once and with 4 retries, exactly when
\* that call failed with ObjectErrors, and after a successful sync calls
\* handle_certificate once more and returns its result; any other first
\* result, and a failed sync, is returned with no further call.
C17_RecoveryLadder ==
    call = "process_certificate" =>
        /\ Len(handle_calls) <= 2
        /\ Len(sync_calls) <= 1
        /\ \A i \in DOMAIN sync_calls : sync_calls[i] = 4
        /\ Len(sync_calls) = 1 <=>
                (handle_calls # <<>>
                    /\ handle_calls[1] = Resp("err", "ObjectErrors"))
        /\ Len(handle_calls) = 2 => cs_result.status = "ok"
        /\ ladder_pc = "done" =>
                IF handle_calls[1] = Resp("err", "ObjectErrors")
                THEN IF cs_result.status = "ok"
                     THEN /\ Len(handle_calls) = 2
                          /\ map_result = handle_calls[2]
                     ELSE /\ Len(handle_calls) = 1
                          /\ map_result =
                                Resp("err", cs_result.value.kind)
                ELSE /\ handle_calls = <<map_result>>
                     /\ sync_calls = <<>>
                     /\ tried = <<>>

\* ObjectErrors, a sync that succeeded at its second source, and a retry
\* that returned the effects.
C17_Witness ==
    /\ call = "process_certificate"
    /\ ladder_pc = "done"
    /\ Len(tried) = 2
    /\ handle_calls =
            <<Resp("err", "ObjectErrors"), Resp("effects", TrueDigest)>>
    /\ map_result = Resp("effects", TrueDigest)

-----------------------------------------------------------------------------
(* Properties of execute_transaction (ExecSpec) *)

\* execute_transaction returned: at the first `?`, or with what
\* process_certificate returned.
ExecReturned ==
    /\ entry_point = "execute_transaction"
    /\ pc = "done"
    /\ op = "process_certificate" \/ result.status = "err"

\* C18 as stated: a call that returns Ok incremented
\* total_tx_certificates_created once, a call that returns an error did not
\* increment it.
C18_Original ==
    ExecReturned =>
        metrics.total_tx_certificates_created =
            IF result.status = "ok" THEN 1 ELSE 0

\* C18, amended: the counter is incremented once by every call in which
\* process_transaction returned a certificate, whatever process_certificate
\* then returns, and not at all when process_transaction failed.
C18_CounterPerCertificate ==
    entry_point = "execute_transaction" =>
        /\ metrics.total_tx_certificates_created =
                IF op = "process_certificate" THEN 1 ELSE 0
        /\ op = "process_certificate" <=> new_certificate.some
        /\ (ExecReturned /\ result.status = "ok") =>
                op = "process_certificate"

\* The call failed in process_certificate after the certificate was
\* counted.
C18_Witness ==
    /\ ExecReturned
    /\ op = "process_certificate"
    /\ result.status = "err"
    /\ new_certificate.origin = "formed"
    /\ metrics.total_tx_certificates_created = 1

-----------------------------------------------------------------------------
(* Properties of the metrics of process_transaction (Spec) *)

\* C19: in one process_transaction call the three histograms are observed
\* together and at most once: once when a certificate is formed from the
\* collected votes, once at the bad_stake > V exit, with the number of
\* signatures and the stakes of that moment; four validators of stake 1
\* that all sign give 3 signatures and good stake 3.
C19_HistogramsOnce ==
    op = "process_transaction" =>
        LET st == accumulated_state
            n == Len(metrics.num_signatures)
            formed == st.certificate.origin = "formed"
            exceeded == st.bad_stake > validity_threshold(committee)
        IN  /\ Len(metrics.num_good_stake) = n
            /\ Len(metrics.num_bad_stake) = n
            /\ n <= 1
            /\ ~(formed /\ exceeded)
            /\ n = 1 <=> (formed \/ exceeded)
            /\ n = 1 =>
                /\ metrics.num_signatures[1] = Len(st.signatures)
                /\ metrics.num_good_stake[1] = st.good_stake
                /\ metrics.num_bad_stake[1] = st.bad_stake
            /\ (formed /\ Deviant = {}
                    /\ \A a \in Authorities : committee[a] = 1) =>
                /\ metrics.num_signatures = <<3>>
                /\ metrics.num_good_stake = <<3>>

\* Four validators of stake 1, the first three responses are signatures.
C19_Witness ==
    /\ Ok("process_transaction")
    /\ \A a \in Authorities : committee[a] = 1
    /\ Deviant = {}
    /\ metrics.num_signatures = <<3>>
    /\ metrics.num_good_stake = <<3>>
    /\ metrics.num_bad_stake = <<0>>

-----------------------------------------------------------------------------
(* Properties of the quorum driver with time (TimedSpec) *)

\* C20: when the validators that fail or stall hold at most V-1 stake,
\* process_transaction and process_certificate return within
\* pre_quorum_timeout + post_quorum_timeout of their start, whenever the
\* responses arrive.
C20_BoundedResponse ==
    (/\ op \in {"process_transaction", "process_certificate"}
     /\ pc = "done"
     /\ FaultyStake <= validity_threshold(committee) - 1)
        => clock <= PreQuorumTimeout + PostQuorumTimeout


-----------------------------------------------------------------------------
(* C21: quorum_once is serial when the interval is at least the timeout *)

\* The requests of the round whose future has not completed yet.
Running == {name \in DOMAIN in_flight : in_flight[name] > 0}

\* The requests the round has started, and those of them whose failure the
\* loop has handled.
StartedInRound == Cardinality(candidates) - Len(authorities_shuffled)

FailedInRound == StartedInRound - Cardinality(DOMAIN in_flight)

-----------------------------------------------------------------------------
(* C22: sync_all_given_objects *)

ObjectsReturned == objects_pc = "done" /\ objects_result.status = "ok"

SyncedWith(digest) == {p[2] : p \in {q \in synced : q[1] = digest}}

Results == Range(active_objects) \cup Range(deleted_objects)

-----------------------------------------------------------------------------
(* C23: fetch_objects_from_authorities *)

ReceivedFor(ref) == {i \in 1..Len(received) : received[i].object = ref}

\* C23: the receiver gets at most one result per requested ref, each the
\* object or ObjectFetchFailed of a requested ref; when it observes
\* end-of-stream it has got exactly one per ref and every task has
\* finished; with no refs end-of-stream is what it observes first; and it
\* always does observe end-of-stream.
C23_OneResultPerRef ==
    /\ [](/\ \A i \in 1..Len(received) :
                /\ received[i].object \in object_refs
                /\ received[i] \in {FetchedOk(received[i].object),
                                    ObjectFetchFailed(received[i].object)}
          /\ \A ref \in object_refs : Cardinality(ReceivedFor(ref)) <= 1
          /\ end_of_stream =>
                /\ \A ref \in object_refs :
                      /\ Cardinality(ReceivedFor(ref)) = 1
                      /\ tasks[ref].state = "done"
                /\ channel = <<>>
          /\ (object_refs = {} /\ fetch_pc = "returned" /\ ~end_of_stream)
                => (ENABLED ReceiveEnd /\ ~ENABLED Receive))
    /\ <>end_of_stream

\* The receiver has observed end-of-stream after three results that did
\* not fit the channel together and arrived out of order, one of them a
\* failure.
C23_Witness ==
    /\ end_of_stream
    /\ Cardinality(object_refs) = MaxRefs
    /\ channel_bound < Cardinality(object_refs)
    /\ received[1].object > received[2].object
    /\ \E i, j \in 1..Len(received) :
          /\ received[i].status = "ok"
          /\ received[j].status = "ObjectFetchFailed"


-----------------------------------------------------------------------------
(* C24: process_certificate on the same certificate again *)

\* C24: during a call of process_certificate at most one effects digest
\* holds a quorum of stake, and when two calls on the same certificate,
\* with the validators giving the same answers in any two arrival orders,
\* both return effects, the effects digest is the same.
C24_SameEffectsDigest ==
    /\ Cardinality(Winners(accumulated_state.effects_map, committee)) <= 1
    /\ (run = 2 /\ Ok("process_certificate") /\ first_result.status = "ok")
          => result.value.effects = first_result.effects

\* Both calls returned effects, the responses having arrived in different
\* orders: the effects are signed by different validators.
C24_Witness ==
    /\ run = 2
    /\ Ok("process_certificate")
    /\ first_result.status = "ok"
    /\ Names(result.value.signatures) # first_result.signers


-----------------------------------------------------------------------------
(* C25, C26: the requests served by quorum_once_with_timeout *)

\* The validators whose request of the current round the loop has handled
\* as a failure.
HandledInRound ==
    (candidates \ Range(authorities_shuffled)) \ DOMAIN in_flight

\* C25: get_certified_checkpoint and handle_cert_info_request return Ok
\* only with the response of a validator that held the data asked for; a
\* response lacking it is recorded in authority_errors as the failure of
\* that validator (GenericAuthorityError, TransactionNotFound); and the
\* round then always has a request under way: the next validator of the
\* order was started, or the round has ended.
C25_RequiredData ==
    request \in {"get_certified_checkpoint", "handle_cert_info_request"} =>
        /\ once_result.status = "ok" =>
              replies[once_result.value] = "complete"
        /\ once_pc = "round" =>
              /\ DOMAIN in_flight # {}
              /\ \A name \in HandledInRound :
                    /\ name \in DOMAIN authority_errors
                    /\ authority_errors[name] \in RequestFailures(name)
                    /\ (replies[name] = "lacking"
                            /\ behaviour[name].latency <= TimeoutEach)
                          => authority_errors[name].kind =
                                IF request = "get_certified_checkpoint"
                                THEN "GenericAuthorityError"
                                ELSE "TransactionNotFound"

\* A validator answered without the data, was recorded, and the next one
\* is being tried.
C25_Witness ==
    /\ request \in {"get_certified_checkpoint", "handle_cert_info_request"}
    /\ once_pc = "round"
    /\ \E name \in HandledInRound :
          /\ replies[name] = "lacking"
          /\ authority_errors[name].kind
                \in {"GenericAuthorityError", "TransactionNotFound"}
    /\ \E next \in DOMAIN in_flight : in_flight[next] > 0

\* C26: handle_transaction_and_effects_info_request records a response
\* missing the certificate or the effects as ByzantineAuthoritySuspicion of
\* that validator when the caller passed a set of authorities and as
\* TransactionNotFound when it passed none, and contacts only candidates.
C26_MissingData ==
    request = "handle_transaction_and_effects_info_request" =>
        /\ \A name \in DOMAIN failures :
              (replies[name] = "lacking"
                    /\ behaviour[name].latency <= TimeoutEach)
                  => /\ failures[name].last =
                          IF restricted
                          THEN ByzantineAuthoritySuspicion(name)
                          ELSE SuiError("TransactionNotFound")
                     /\ authority_errors[name] = failures[name].last
        /\ DOMAIN failures \cup DOMAIN in_flight \subseteq candidates
        /\ once_result.status = "ok" =>
              /\ once_result.value \in candidates
              /\ replies[once_result.value] = "complete"

\* Without a set of authorities, a validator answered without the data and
\* was recorded with TransactionNotFound.
C26_Witness ==
    /\ request = "handle_transaction_and_effects_info_request"
    /\ ~restricted
    /\ \E name \in DOMAIN failures :
          /\ replies[name] = "lacking"
          /\ failures[name].last = SuiError("TransactionNotFound")

-----------------------------------------------------------------------------
(* Bookkeeping of sync_authority_source_to_destination (SyncSpec,
   SyncFairSpec) *)

\* The iteration popped a certificate and skipped it: nothing was handled,
\* recorded or returned.
Skipped ==
    /\ sync_pc = "loop"
    /\ missing_certificates # <<>>
    /\ missing_certificates' = Pop(missing_certificates)
    /\ UNCHANGED <<processed_certificates, attempted_certificates, applied,
                   sync_pc>>

\* With an honest source: cert and every dependency that was fetched.
Pushed ==
    {CertDigest} \cup UNION {Range(dependencies[f]) : f \in Range(fetched)}

\* C28: a popped certificate is skipped only if the destination accepted it
\* earlier in this call, and when the call returns Ok every certificate that
\* was pushed onto the stack (cert and every dependency fetched from an
\* honest source) has been accepted by the destination.
C28_SkipOnlyAccepted ==
    /\ [][Skipped => Top(missing_certificates) \in Range(applied)]_vars
    /\ []((SyncReturnedOk /\ source_mode = "honest")
            => Pushed \subseteq Range(applied))

\* A lagging destination is about to answer ObjectErrors for the certificate
\* on top of the stack: nothing was processed yet, so the certificate is not
\* skipped, and one of its dependencies is not applied.
AnswersObjectErrors ==
    /\ sync_pc = "loop"
    /\ missing_certificates # <<>>
    /\ destination_mode = "lagging"
    /\ processed_certificates = {}
    /\ ~(Range(dependencies[Top(missing_certificates)])
            \subseteq Range(applied))

\* C29: an ObjectErrors answer for a certificate T whose dependencies were
\* already fetched in this call (T in attempted) ends the call with
\* AuthorityInformationUnavailable, and the first ObjectErrors answer for a
\* certificate T that is not in attempted does not end the call: T is added
\* to attempted and its dependencies are requested from the source.
C29_ErrorExits ==
    [][AnswersObjectErrors =>
        IF Top(missing_certificates) \in attempted_certificates
        THEN /\ sync_pc' = "done"
             /\ sync_result' = SyncErr("AuthorityInformationUnavailable")
        ELSE /\ Top(missing_certificates) \in attempted_certificates'
             /\ Len(fetched') = Len(fetched) + 1]_vars

\* C30: the source is asked for dependencies at most once per digest, and
\* the call returns (Ok or an error) whatever the source and the destination
\* answer, as long as every request returns.
C30_FetchOnceAndTerminate ==
    /\ [](\A i, j \in DOMAIN fetched : i # j => fetched[i] # fetched[j])
    /\ <>(sync_pc = "done")

\* The call returned Ok with a faulty source and a destination that answers
\* anything, after dependencies were fetched and a certificate was skipped.
C30_Witness ==
    /\ SyncReturnedOk
    /\ source_mode = "faulty"
    /\ destination_mode = "arbitrary"
    /\ fetched # <<>>
    /\ Len(applied) >= 1
    /\ processed_certificates # {}

-----------------------------------------------------------------------------
(* The sync lag scenario (LagSpec) *)

\* The lagging validator lacks exactly one dependency of cert.
LacksOne ==
    /\ Len(dependencies[CertDigest]) = 1
    /\ dependencies[dependencies[CertDigest][1]] = <<>>

\* C27: when the lagging validator answers ObjectErrors because it lacks one
\* dependency of cert and the sources are honest, the dependency is applied
\* at the validator before cert, the first sampled source suffices, the
\* retried handle_certificate yields the effects, and process_certificate
\* returns the certified effects with no error recorded.
C27_SyncLag ==
    LacksOne =>
        /\ ladder_pc \in {"retry", "done"} =>
            /\ dependencies[CertDigest][1] \in Range(applied)
            /\ CertDigest \in Range(applied) =>
                AppliedAt(dependencies[CertDigest][1]) < AppliedAt(CertDigest)
            /\ Len(tried) = 1
            /\ tried[1].outcome = Resp("ok", "-")
            /\ reports = <<>>
        /\ ladder_pc = "done" =>
            /\ handle_calls = <<Resp("err", "ObjectErrors"),
                                Resp("effects", TrueDigest)>>
            /\ map_result = Resp("effects", TrueDigest)
        /\ pc = "done" =>
            /\ ladder_pc = "done"
            /\ result.status = "ok"
            /\ result.value.effects = TrueDigest
            /\ accumulated_state.errors = <<>>
            /\ accumulated_state.bad_stake = 0

\* process_certificate returned the certified effects after the lagging
\* validator was synced from one source and answered the retry.
C27_Witness ==
    /\ LacksOne
    /\ pc = "done"
    /\ result.status = "ok"
    /\ Len(handle_calls) = 2
    /\ Len(tried) = 1
    /\ applied = dependencies[CertDigest]
    /\ Lagging \in DOMAIN answered

-----------------------------------------------------------------------------
(* The source sampling (SampleFairSpec) *)

\* C31: the sampling completes and yields min(retries, number of signers)
\* pairwise distinct sources, all of them signers of cert, for every
\* committee of non-negative stakes.
C31_SamplingCompletes ==
    <>(/\ cs_pc = "try"
       /\ Len(source_authorities) = Min(retries, Cardinality(signers))
       /\ Range(source_authorities) \subseteq signers
       /\ \A i, j \in DOMAIN source_authorities :
            source_authorities[i] = source_authorities[j] => i = j)

-----------------------------------------------------------------------------
(* The wait budget and the object queries (QuerySpec) *)

\* C32: current_timeout starts at the pre-quorum timeout, changes only when
\* the reducer returns ContinueWithTimeout, and then to its duration, the
\* post-quorum timeout; Continue leaves it alone, so once the post-quorum
\* timeout is in force no later response restores the pre-quorum timeout.
C32_WaitBudget ==
    /\ []((pc = "running" /\ answered = <<>>)
            => current_timeout = "pre_quorum_timeout")
    /\ [][/\ current_timeout' # current_timeout =>
                /\ last_out'.out = "ContinueWithTimeout"
                /\ current_timeout' = "post_quorum_timeout"
          /\ (answered' # answered /\ last_out'.out = "Continue") =>
                current_timeout' = current_timeout
          /\ current_timeout = "post_quorum_timeout" =>
                current_timeout' = "post_quorum_timeout"]_vars

\* A response was folded with Continue after the post-quorum timeout was in
\* force.
C32_Witness ==
    /\ current_timeout = "post_quorum_timeout"
    /\ last_out.out = "Continue"
    /\ Len(accumulated_state.errors) >= 1

\* The validators whose response was an error, and what each reported.
Erring == {name \in DOMAIN answered : answered[name].kind = "err"}

ReportedBy(name) ==
    CASE answered[name].kind = "object" -> {answered[name].val}
      [] answered[name].kind = "objects" -> ObjectIdsOf(answered[name])
      [] OTHER -> {}

QueryFailed == pc = "done" /\ result.status = "err"

\* C34: in get_object_by_id and get_all_owned_objects the post-quorum
\* timeout is in force exactly when the validators that responded, errors
\* included, hold stake >= Q; the query fails, with
\* TooManyIncorrectAuthorities listing each erring validator and its error,
\* exactly when the stake of the error responses exceeds V; and every
\* reference of the returned map is attributed only to validators that
\* reported it.
C34_ObjectQueries ==
    op \in QueryProtocols =>
        /\ ~QueryFailed =>
            /\ current_timeout = "post_quorum_timeout"
                <=> StakeOf(committee, DOMAIN answered)
                        >= quorum_threshold(committee)
            /\ StakeOf(committee, Erring) <= validity_threshold(committee)
        /\ QueryFailed =>
            /\ StakeOf(committee, Erring) > validity_threshold(committee)
            /\ result.value.kind = "TooManyIncorrectAuthorities"
            /\ Range(result.value.errors) =
                    {<<name, SuiError(answered[name].val)>> : name \in Erring}
            /\ Len(result.value.errors) = Cardinality(Erring)
        /\ (pc = "done" /\ result.status = "ok") =>
            \A ref \in DOMAIN result.value.object_map :
                /\ result.value.object_map[ref] # <<>>
                /\ \A name \in Range(result.value.object_map[ref]) :
                        /\ name \in DOMAIN answered
                        /\ ref \in ReportedBy(name)

\* A query returned a map with a reference two validators reported after a
\* third validator answered with an error.
C34_Witness ==
    /\ op \in QueryProtocols
    /\ pc = "done"
    /\ result.status = "ok"
    /\ Erring # {}
    /\ current_timeout = "post_quorum_timeout"
    /\ \E ref \in DOMAIN result.value.object_map :
            Len(result.value.object_map[ref]) = 2

-----------------------------------------------------------------------------
(* The early end of execute_cert_to_true_effects (Spec) *)

\* The stake of the validators yet to respond.
WeightRemaining ==
    total_votes(committee) - StakeOf(committee, DOMAIN answered)

\* The stake of the validators that returned signed effects, of any digest
\* and of one digest.
GoodWeight ==
    StakeOf(committee,
            {name \in DOMAIN answered : answered[name].kind = "effects"})

DigestWeight(d) ==
    StakeOf(committee,
            {name \in DOMAIN answered : answered[name] = Resp("effects", d)})

\* The error recorded for a validator that returned no effects.
ExecError(name) ==
    IF answered[name].kind = "err" THEN SuiError(answered[name].val)
    ELSE ByzantineAuthoritySuspicion(name)

\* C33: execute_cert_to_true_effects goes on only while the stake yet to
\* respond plus good_weight is at least V; a failure is
\* TooManyIncorrectAuthorities with the error of every validator that
\* returned no effects; when it fails without a timeout no digest could
\* still reach V; and an Ok result carries a digest of stake >= V.
C33_EarlyEnd ==
    op = "execute_cert_to_true_effects" =>
        /\ pc = "running" =>
            WeightRemaining + GoodWeight >= validity_threshold(committee)
        /\ (pc = "done" /\ result.status = "err") =>
            /\ result.value.kind = "TooManyIncorrectAuthorities"
            /\ Range(result.value.errors) =
                {<<name, ExecError(name)>> :
                    name \in {n \in DOMAIN answered :
                                answered[n].kind # "effects"}}
            /\ stalled = {} =>
                \A d \in EffectsDigests :
                    DigestWeight(d) + WeightRemaining
                        < validity_threshold(committee)
        /\ (pc = "done" /\ result.status = "ok") =>
            DigestWeight(result.value.digest)
                >= validity_threshold(committee)

\* The call failed while a validator had not responded and no wait had
\* expired, after some validator returned effects.
C33_Witness ==
    /\ op = "execute_cert_to_true_effects"
    /\ pc = "done"
    /\ result.status = "err"
    /\ stalled = {}
    /\ DOMAIN answered # Authorities
    /\ GoodWeight >= 1

-----------------------------------------------------------------------------
(* The backoff and the empty candidate list of quorum_once_with_timeout
   (OnceSpec, CheckpointSpec) *)

\* C35: the sleep after the k-th failed round lasts min(2^k, 300) seconds,
\* and the delay never decreases, never exceeds five minutes and is not
\* reset between the rounds of a call.
C35_Backoff ==
    /\ [](/\ delay = Min(2 ^ rounds, MaxDelay)
          /\ delay <= 300
          /\ rounds = 0 => delay = 1)
    /\ [][delay' >= delay]_vars

\* The call sleeps after its tenth failed round, with the delay at its cap.
C35_Witness ==
    /\ once_pc = "sleep"
    /\ rounds = 9
    /\ delay = 300

\* C40: quorum_once_with_timeout never panics, whatever candidate list it is
\* called with, the empty one included: it ends with a success, an error or
\* the outer timeout.
C40_NeverPanics ==
    /\ once_result.status # "panic"
    /\ once_pc = "done" => once_result.status \in {"ok", "err"}

-----------------------------------------------------------------------------
(* process_transaction: the run without a certificate *)

\* The stake that signed the transaction, and the stake still to answer.
SignedWeight ==
    StakeOf(committee,
            {name \in DOMAIN answered : answered[name].kind = "signed"})

QuorumOutOfReach ==
    SignedWeight + WeightRemaining < quorum_threshold(committee)

-----------------------------------------------------------------------------
(* The two exits of a quorum reducer *)

\* Some effects digest of process_certificate holds a quorum of stake.
DigestAtQuorum ==
    \E d \in DOMAIN accumulated_state.effects_map :
        accumulated_state.effects_map[d].stake >= quorum_threshold(committee)

\* C37: Q + V > S, so the two exits of a quorum reducer exclude each other:
\* process_certificate never has an effects digest at stake >= Q together
\* with bad_stake > V and never fails with QuorumFailedToExecuteCertificate
\* once a digest reached quorum, and process_transaction never has
\* good_stake >= Q together with bad_stake > V.
C37_ExitsExclude ==
    LET st == accumulated_state
        exceeded == st.bad_stake > validity_threshold(committee)
    IN  /\ quorum_threshold(committee) + validity_threshold(committee)
                > total_votes(committee)
        /\ op = "process_certificate" =>
            /\ ~(DigestAtQuorum /\ exceeded)
            /\ DigestAtQuorum => ~Failed(op)
        /\ op = "process_transaction" =>
            ~(st.good_stake >= quorum_threshold(committee) /\ exceeded)

\* A digest reached quorum, the loop went on under the post-quorum timeout,
\* a later validator answered an error, and the call returned the certified
\* effects.
C37_Witness ==
    /\ Ok("process_certificate")
    /\ DigestAtQuorum
    /\ \A a \in Authorities : committee[a] = 1
    /\ DOMAIN answered = Authorities
    /\ accumulated_state.bad_stake = 1
    /\ last_out.out = "Continue"

-----------------------------------------------------------------------------
(* Stake accounting of the fan-outs *)

\* The stake of the validators whose response was reduced.
ReducedWeight == StakeOf(committee, DOMAIN answered)

\* The stake of the reduced validators whose response is of one of the kinds.
KindWeight(kinds) ==
    StakeOf(committee,
            {name \in DOMAIN answered : answered[name].kind \in kinds})

\* C36: each validator's stake is added to the reducer's counters at most
\* once: good_stake + bad_stake <= S in process_transaction, bad_weight <=
\* good_weight <= S in get_object_by_id and get_all_owned_objects, and
\* cumulative_weight <= S in execute_cert_to_true_effects, so that
\* total_weight - cumulative_weight never underflows.
C36_StakeAccounting ==
    LET st == accumulated_state
        S == total_votes(committee)
    IN  /\ ReducedWeight <= S
        /\ op = "process_transaction" =>
            /\ st.good_stake = KindWeight({"signed"})
            /\ st.good_stake + st.bad_stake
                    = ReducedWeight - KindWeight({"cert"})
            /\ st.good_stake + st.bad_stake <= S
        /\ op \in QueryProtocols =>
            /\ st.good_weight = ReducedWeight
            /\ st.bad_weight = KindWeight({"err"})
            /\ st.bad_weight <= st.good_weight
            /\ st.good_weight <= S
        /\ op = "execute_cert_to_true_effects" =>
            /\ st.cumulative_weight = ReducedWeight
            /\ st.good_weight = KindWeight({"effects"})
            /\ S - st.cumulative_weight >= 0
            /\ S - st.cumulative_weight = StakeOf(committee, responses)
                    \/ pc = "done"

\* execute_cert_to_true_effects reduced the response of every validator of
\* a committee of total stake 8: cumulative_weight is the total stake and
\* nothing remains.
C36_Witness ==
    /\ op = "execute_cert_to_true_effects"
    /\ pc = "done"
    /\ DOMAIN answered = Authorities
    /\ total_votes(committee) = 4 * MaxStake
    /\ accumulated_state.cumulative_weight = total_votes(committee)

-----------------------------------------------------------------------------
(* The entries sync_all_given_objects returns for one object id *)

\* The positions of the entries of an id in a returned list.
EntriesOf(list, id) == {i \in 1..Len(list) : list[i].id = id}

\* C38: sync_all_given_objects returns at most one entry per requested
\* object id across the live-object list and the tombstone list together,
\* whatever versions the validators report (a highest-version tuple without
\* parent certificate included), and it returns Ok with those entries
\* whether or not the syncs of the lagging validators succeed.
C38_OneEntryPerId ==
    /\ \A id \in Range(objects) :
          Cardinality(EntriesOf(active_objects, id))
              + Cardinality(EntriesOf(deleted_objects, id)) <= 1
    /\ (objects_pc = "done" /\ Len(reported) = Len(objects))
          => objects_result.status = "ok"

====
